---- MODULE Spec2Model ----
(***************************************************************************)
(* Verification model of the cop-cam surveillance pipeline.                *)
(*                                                                         *)
(*  - Track identity stabilizer: the per-track vote buffer of the frame    *)
(*    loop (backend/model_integration.py, offline_preprocess.py), alone    *)
(*    and under the tracker creating, confirming and deleting the track.   *)
(*  - Identity resolver: helper.py batch_vector_search / find_best_match,  *)
(*    per result row and per frame batch (input checks, query failure,     *)
(*    prepare_deepsort_inputs).                                            *)
(*  - Person-ID allocation: offline_preprocess.get_person_id (registry)    *)
(*    and model_integration.get_person_id (count of database keys); the    *)
(*    offline first-seen table and detection records.                      *)
(*  - FaceDatabase (backend/face_database.py) with its durable file, as    *)
(*    used by POST /report-detection (backend/main.py), send_detection     *)
(*    (backend/model_integration.py) and the test backend start-up.        *)
(*  - Backend event loop (backend/main.py, backend/database.py): the       *)
(*    detection store, the WebSocket fan-out of WSManager and the          *)
(*    coroutines suspended in it.                                          *)
(*  - Simulation replay (backend/simulation.py): loading, the nearest-     *)
(*    neighbour join, the paced replay task, start_replay and stop_replay, *)
(*    and the /simulation endpoints of backend/main.py.                    *)
(*  - Timeline merge: offline_processor/merge_results.py and the end of    *)
(*    main in offline_processor/process_videos.py.                         *)
(*  - Test backend: the detection generator of backend/test_backend.py    *)
(*    with its start and stop endpoints.                                   *)
(*  - Person-crop path: the frame loop of process_videos.py and test.py,   *)
(*    which names a track once.                                            *)
(*  - Offline preprocessing as a whole: main of offline_preprocess.py, the *)
(*    videos one after the other, the detections files and the timeline.   *)
(***************************************************************************)
EXTENDS Integers, Sequences, FiniteSets, TLC

VARIABLES
    prediction_dict,   \* stabilizer: track_id -> list of observed labels
    hist,              \* history: every label appended for the track, in order
    counted,           \* history: the list last handed to Counter for the track
    detections,        \* history: the predictions passed to send_detection, per track
    tracks,            \* tracker: track_id -> state of the track in the tracker
    search,            \* resolver: the last query (function, nearest label, distance, threshold)
    identity_result,   \* resolver: the (name, distance) pair returned for it
    batch,             \* resolver: the last batch_vector_search call of a frame and what came of it
    name_to_person_id, \* offline registry: name -> person_id
    person_id_counter, \* offline registry: category -> next sequence number
    resolved,          \* history: the offline get_person_id calls and their results
    first_seen_info,   \* offline: person_id -> camera, time and face image of the first sighting
    camera_detections, \* offline: the detection records created, in order, over all videos
    database,          \* a FaceDatabase instance driven through its interface
    calls,             \* history: the add_person / update_last_seen calls made on it
    face_db,           \* live pipeline: process -> its face_db.database
    db_file,           \* face_database.json, the durable copy
    clock,             \* datetime.now(), as a tick count
    sent,              \* history: (person_name, person_id) of every send_detection
    last_op,           \* history: the last live operation and what it decided
    db_detections,     \* backend: db.detections, the detection store
    origin,            \* history: per stored detection, the task and event it came from
    active,            \* backend: mgr.active, the fan-out list of subscribers
    tasks,             \* backend: the coroutines of the event loop that were suspended
    broadcasts,        \* history: the message of every mgr.broadcast call
    sends,             \* history: every ws.send_json that was awaited, with its outcome
    stayed,            \* history: per broadcast, who was in mgr.active from its start on
    data_loaded,       \* replay: simulation_replay is not None
    timeline,          \* replay: self.timeline
    detections_by_camera, \* replay: self.detections_by_camera
    is_running,        \* replay: self.is_running
    replay_task,       \* replay: self.replay_task, as an index of tasks (0 is None)
    pacing,            \* history: the wait decided before each event of a replay
    replay_op,         \* history: the last backend operation and what it found
    detection_data,    \* history: the last timeline event joined and the result
    output_data,       \* merge: the last run of a merge program and what it wrote
    is_simulating,     \* test backend: the global is_simulating
    generators,        \* test backend: the generate_test_detections tasks created
    delayed_start,     \* test backend: where delayed_start of lifespan stands
    stored_name,       \* person-crop path: track_id -> prediction_dict[track_id]["name"]
    crop_log,          \* history: per processed frame, what the person-crop path did
    main_pc,           \* offline main: "videos" while the for loop runs, then "done"
    main_time,         \* offline main: its local global_time, the next start offset
    camera_idx,        \* offline main: camera_idx
    video,             \* offline main: the process_video call in progress, if any
    global_timeline,   \* offline main: the module's global_timeline, in append order
    event_video,       \* history: per global_timeline entry, the video it came from
    video_log,         \* history: start and end time of every process_video call
    detections_files,  \* offline main: detections/<CAMERA>.json, as last written
    timeline_file      \* offline main: timeline.json, as written

varsStab == <<prediction_dict, hist, counted, detections, tracks>>
varsRes == <<search, identity_result, batch>>
varsReg == <<name_to_person_id, person_id_counter, resolved, first_seen_info,
             camera_detections>>
varsDb == <<database, calls>>
varsLive == <<face_db, clock, sent, last_op>>
varsBackend == <<db_detections, origin, active, tasks, broadcasts, sends,
                 stayed>>
varsData == <<data_loaded, timeline, detections_by_camera>>
varsReplay == <<is_running, replay_task, pacing>>
varsJoin == <<detection_data, output_data>>
varsTest == <<is_simulating, generators, delayed_start>>
varsCrop == <<stored_name, crop_log>>
varsMain == <<main_pc, main_time, camera_idx, video, global_timeline,
              event_video, video_log, detections_files, timeline_file>>

vars == <<prediction_dict, hist, counted, detections, tracks, search,
          identity_result, batch,
          name_to_person_id, person_id_counter, resolved, first_seen_info,
          camera_detections, database, calls,
          face_db, db_file, clock, sent, last_op, db_detections, origin,
          active, tasks, broadcasts, sends, stayed, data_loaded, timeline,
          detections_by_camera, is_running, replay_task, pacing, replay_op,
          detection_data, output_data, is_simulating, generators,
          delayed_start, stored_name, crop_log, main_pc, main_time,
          camera_idx, video, global_timeline, event_video, video_log,
          detections_files, timeline_file>>

(***************************************************************************)
(* Bounds and program constants                                            *)
(***************************************************************************)
\* Observations fed to one track before the model stops feeding it.
MaxObs == 11

\* len(prediction_dict[track_id]) >= 10 and prediction_dict[track_id][-10:]
VoteWindow == 10

\* Cosine distances are counted in hundredths: 0 .. MaxDist.
MaxDist == 100

\* threshold=0.40 of the face path and threshold=0.80 of the person-crop path.
FaceThreshold == 40
PersonThreshold == 80
Thresholds == {FaceThreshold, PersonThreshold}

\* float("inf")
Inf == MaxDist + 1

\* Python None, for a label and for a distance.
NoneLabel == "<None>"
NoneSim == -1

\* Labels the gallery index can return as nearest neighbour.
GalleryLabels == {"ayush", "kanika-2", "ravi-side-3"}

\* Calls made on the offline registry and the frame process in SpecAlloc.
MaxAlloc == 5

\* Interface calls made on the FaceDatabase instance in SpecFaceDb.
MaxDbCalls == 4

\* Timestamps handed to update_last_seen in SpecFaceDb: 1 .. MaxTime.
MaxTime == 3

\* Sightings and reports handled in SpecLive.
MaxLive == 4

\* "first_seen": None, "last_seen": None
NoTime == 0

\* Python None, for person_id and person_name of a request body.
NoneId == "<no id>"
NoneName == "<no name>"

\* poi.txt, and the labels a stabilized prediction can carry.
Poi == {"ayush", "kanika", "ravi"}
Names == Poi \cup {"sharma", "Unknown"}

Categories == {"A", "B"}

TrackIds == {1}
Labels == {"Unknown", "ayush", "kanika"}

(***************************************************************************)
(* Track identity stabilizer                                               *)
(***************************************************************************)
\* Number of occurrences of l in list s: Counter(s)[l].
CounterCount(s, l) == Cardinality({i \in 1..Len(s) : s[i] = l})

\* Keys of Counter(s) in insertion order (dict order = first appearance).
RECURSIVE CounterKeys(_)
CounterKeys(s) ==
    IF s = <<>> THEN <<>>
    ELSE LET front == CounterKeys(SubSeq(s, 1, Len(s) - 1))
             last  == s[Len(s)]
         IN  IF \E i \in 1..Len(front) : front[i] = last
             THEN front
             ELSE Append(front, last)

\* A vote that keeps the last key holding the largest count instead of the first.
MostCommonLastTie(s) ==
    LET keys == CounterKeys(s)
        best == CHOOSE i \in 1..Len(keys) :
                    /\ \A j \in 1..Len(keys) :
                          CounterCount(s, keys[j]) <= CounterCount(s, keys[i])
                    /\ \A j \in (i + 1)..Len(keys) :
                          CounterCount(s, keys[j]) < CounterCount(s, keys[i])
    IN  keys[best]

\* Counter(s).most_common(1)[0][0]: heapq.nlargest(1, items, key=count) is
\* max(items, key=count), which keeps the first key holding the largest count.
MostCommon(s) ==
    LET keys == CounterKeys(s)
        best == CHOOSE i \in 1..Len(keys) :
                    /\ \A j \in 1..Len(keys) :
                          CounterCount(s, keys[j]) <= CounterCount(s, keys[i])
                    /\ \A j \in 1..(i - 1) :
                          CounterCount(s, keys[j]) < CounterCount(s, keys[i])
    IN  keys[best]

\* s[-n:]
LastN(s, n) == IF Len(s) <= n THEN s ELSE SubSeq(s, Len(s) - n + 1, Len(s))

\* The list Counter is built from: the buffer after the append, before the trim.
VoteInput(buf) == buf

\* A vote that fires only when the buffer holds exactly 10 labels.
VoteReadyOnce(buf) == Len(buf) = VoteWindow

\* The vote fires when the buffer, after the append, holds at least 10 labels.
VoteReady(buf) == Len(buf) >= VoteWindow

\* The states of a track in the tracker: not yet created, tentative,
\* confirmed, and deleted (dropped from the tracker's tracks).
TrackStates == {"none", "tentative", "confirmed", "deleted"}

\* The tracks update_tracks returns: those the tracker holds.
LiveTracks == {t \in TrackIds : tracks[t] \in {"tentative", "confirmed"}}

InitStab ==
    /\ tracks = [t \in TrackIds |-> "none"]
    /\ prediction_dict = [t \in TrackIds |-> <<>>]
    /\ hist = [t \in TrackIds |-> <<>>]
    /\ counted = [t \in TrackIds |-> <<>>]
    /\ detections = [t \in TrackIds |-> <<>>]

\* The body of "for track in tracks" for track t whose det_class is name;
\* is_confirmed is track.is_confirmed().
LoopBody(t, name, is_confirmed) ==
    IF ~is_confirmed
    THEN UNCHANGED <<prediction_dict, hist, counted, detections>>
    ELSE LET buf == Append(prediction_dict[t], name)
         IN  /\ hist' = [hist EXCEPT ![t] = Append(@, name)]
             /\ IF VoteReady(buf)
                THEN /\ counted' = [counted EXCEPT ![t] = VoteInput(buf)]
                     /\ detections' = [detections EXCEPT
                            ![t] = Append(@, MostCommon(VoteInput(buf)))]
                ELSE UNCHANGED <<counted, detections>>
             /\ prediction_dict' = [prediction_dict EXCEPT
                    ![t] = LastN(buf, VoteWindow)]

\* One pass of the loop body "for track in tracks" for track t whose
\* det_class is name; is_confirmed is the tracker's answer for the track.
ObserveTrack(t, name, is_confirmed) ==
    /\ Len(hist[t]) < MaxObs
    /\ LoopBody(t, name, is_confirmed)
    /\ UNCHANGED tracks
    /\ UNCHANGED <<varsRes, varsReg, varsDb, varsLive, db_file, varsBackend,
                   varsData, varsReplay, varsJoin, varsTest, varsCrop,
                   varsMain, replay_op>>

\* What tracker.update_tracks can make of a track in one frame. The tracker
\* is a library (DeepSort): a new track is tentative, a tentative track is
\* confirmed after enough hits or deleted on a miss, a confirmed track is
\* deleted after max_age misses, and a deleted track never comes back (track
\* ids are not reused).
UpdateTracks(state) ==
    CASE state = "none"      -> {"none", "tentative"}
      [] state = "tentative" -> {"tentative", "confirmed", "deleted"}
      [] state = "confirmed" -> {"confirmed", "deleted"}
      [] state = "deleted"   -> {"deleted"}

\* The labels a track's det_class takes in SpecTracks.
TrackLabels == {"Unknown", "ayush"}

\* One frame of the frame loop, for track t: update_tracks moves the track to
\* state to, and the loop body runs for it when the tracker still returns it.
Frame(t, to, name) ==
    /\ Len(hist[t]) < MaxObs
    /\ to \in UpdateTracks(tracks[t])
    /\ tracks' = [tracks EXCEPT ![t] = to]
    /\ IF to \in {"tentative", "confirmed"}
       THEN LoopBody(t, name, to = "confirmed")
       ELSE UNCHANGED <<prediction_dict, hist, counted, detections>>
    /\ UNCHANGED <<varsRes, varsReg, varsDb, varsLive, db_file, varsBackend,
                   varsData, varsReplay, varsJoin, varsTest, varsCrop,
                   varsMain, replay_op>>

NextStab ==
    \E t \in TrackIds, name \in Labels, is_confirmed \in BOOLEAN :
        ObserveTrack(t, name, is_confirmed)

\* Frames with the tracker creating, confirming and deleting the track.
NextTracks ==
    \E t \in TrackIds, to \in TrackStates, name \in TrackLabels :
        Frame(t, to, name)

(***************************************************************************)
(* Stabilizer properties                                                   *)
(***************************************************************************)
\* Position of the first occurrence of l in w (0 when absent).
FirstIndex(w, l) ==
    IF \E i \in 1..Len(w) : w[i] = l
    THEN CHOOSE i \in 1..Len(w) : w[i] = l /\ \A j \in 1..(i - 1) : w[j] # l
    ELSE 0

\* l is a most frequent label of w and, among the most frequent ones, the one
\* that appears first in w.
IsEarliestMode(l, w) ==
    /\ FirstIndex(w, l) > 0
    /\ \A m \in Labels : CounterCount(w, m) <= CounterCount(w, l)
    /\ \A m \in Labels \ {l} :
          CounterCount(w, m) = CounterCount(w, l)
              => FirstIndex(w, l) < FirstIndex(w, m)

\* C1: while a track has fewer than 10 observed labels nothing is emitted for
\* it; the detection emitted on the 10th observation carries the most frequent
\* label among those 10, the earliest-appearing one when several tie.
C1_ConfirmationThreshold ==
    \A t \in TrackIds :
        /\ Len(hist[t]) < VoteWindow => detections[t] = <<>> /\ counted[t] = <<>>
        /\ Len(hist[t]) >= VoteWindow =>
              /\ Len(detections[t]) >= 1
              /\ IsEarliestMode(detections[t][1], SubSeq(hist[t], 1, VoteWindow))

\* C1 witness: a track at its 10th observation whose first label is not a most
\* frequent one while two other labels tie for most frequent.
C1_Witness ==
    \E t \in TrackIds :
        /\ Len(hist[t]) = VoteWindow
        /\ Len(detections[t]) = 1
        /\ detections[t][1] # hist[t][1]
        /\ \E m \in Labels \ {detections[t][1]} :
              CounterCount(hist[t], m) = CounterCount(hist[t], detections[t][1])

\* C2 (as claimed): from the 11th observation on, the label emitted at the
\* n-th observation is the earliest mode of exactly the 10 most recent labels
\* (observations n-9 .. n).
C2_SlidingWindowVote ==
    \A t \in TrackIds :
        \A n \in (VoteWindow + 1)..Len(hist[t]) :
            /\ Len(detections[t]) >= n - VoteWindow + 1
            /\ IsEarliestMode(detections[t][n - VoteWindow + 1],
                              SubSeq(hist[t], n - VoteWindow + 1, n))

\* C3 (as claimed): the vote buffer holds at most 10 labels in every state,
\* the list the majority is computed from included, and the 11th observation
\* evicts the oldest of the prior 10.
C3_BufferBound ==
    \A t \in TrackIds :
        /\ Len(prediction_dict[t]) <= VoteWindow
        /\ Len(counted[t]) <= VoteWindow
        /\ Len(hist[t]) > VoteWindow =>
              prediction_dict[t] = SubSeq(hist[t], Len(hist[t]) - VoteWindow + 1,
                                          Len(hist[t]))

(***************************************************************************)
(* Identity resolver (helper.py)                                           *)
(***************************************************************************)
\* Position of the first "-" in string l, or Len(l) + 1 when it has none.
RECURSIVE DashPos(_, _)
DashPos(l, i) ==
    IF i > Len(l) THEN i
    ELSE IF SubSeq(l, i, i) = "-" THEN i
    ELSE DashPos(l, i + 1)

\* label.split("-")[0]
SplitDash(l) == SubSeq(l, 1, DashPos(l, 1) - 1)

\* The sentinel of batch_vector_search.
UnknownName == "Unknown"

\* sim < threshold
IsMatch(sim, threshold) == sim < threshold

\* batch_vector_search, for one result row res = {label, _distance}.
BatchVectorSearchRow(label, sim, threshold) ==
    IF label = NoneLabel \/ sim = NoneSim
    THEN [name |-> UnknownName, sim |-> Inf]
    ELSE IF IsMatch(sim, threshold)
         THEN [name |-> SplitDash(label), sim |-> sim]
         ELSE [name |-> UnknownName, sim |-> sim]

\* find_best_match(face_table, face_embedding, threshold)
FindBestMatchRow(label, distance, threshold) ==
    IF distance < threshold
    THEN [name |-> label, sim |-> distance]
    ELSE [name |-> "Uknown-Unknown", sim |-> distance]

\* Faces of one frame in SpecBatch: 0 .. MaxBatch.
MaxBatch == 2

\* The embeddings argument, by its shape: <<>> is None, <<d>> one vector of
\* length d, <<n, d>> an array of n vectors of length d.
NoEmbeddings == <<>>
EmbeddingDim == 512
Embeddings ==
    LET Dims == {0, 128, EmbeddingDim}
    IN  {NoEmbeddings} \cup {<<d>> : d \in Dims}
            \cup {<<n, d>> : n \in 0..MaxBatch, d \in Dims}

\* The faces the embeddings were computed for (one box each).
Faces(embeddings) ==
    IF embeddings = NoEmbeddings THEN 0
    ELSE IF Len(embeddings) = 1 THEN (IF embeddings[1] = 0 THEN 0 ELSE 1)
    ELSE embeddings[1]

\* emb_np after "if emb_np.ndim == 1: emb_np = emb_np.reshape(1, -1)".
Reshape(embeddings) ==
    IF Len(embeddings) = 1 THEN <<1, embeddings[1]>> ELSE embeddings

\* The checks of batch_vector_search before the query: None or len 0, then
\* size 0 or a last dimension other than 512.
ValidEmbeddings(embeddings) ==
    /\ embeddings # NoEmbeddings
    /\ embeddings[1] # 0
    /\ Reshape(embeddings)[1] * Reshape(embeddings)[2] # 0
    /\ Reshape(embeddings)[2] = EmbeddingDim

\* The rows the gallery index can answer with, one per queried vector.
Rows ==
    [label : {"ayush", "kanika-2", NoneLabel}, sim : {0, 39, 40, NoneSim}]

\* prepare_deepsort_inputs: zip(face_bboxes, identity_results), the label
\* (card_no) and score handed to the tracker for each pair.
PrepareDeepsortInputs(face_bboxes, identity_results) ==
    [k \in 1..(IF face_bboxes < Len(identity_results)
               THEN face_bboxes ELSE Len(identity_results)) |->
        identity_results[k]]

\* batch_vector_search(embeddings, threshold) followed by
\* prepare_deepsort_inputs, as the frame loops call them: rows is what the
\* gallery answers and raises says whether the query raises instead.
BatchSearch(embeddings, threshold, rows, raises) ==
    LET n        == Faces(embeddings)
        valid    == ValidEmbeddings(embeddings)
        results  == IF ~valid \/ raises
                    THEN <<>>
                    ELSE [k \in 1..n |->
                             BatchVectorSearchRow(rows[k].label, rows[k].sim,
                                                  threshold)]
    IN  /\ batch' = [fn |-> "batch_vector_search", embeddings |-> embeddings,
                     threshold |-> threshold,
                     queried |-> valid, raised |-> valid /\ raises,
                     identity_results |-> results,
                     identities |-> PrepareDeepsortInputs(n, results)]
        /\ UNCHANGED <<search, identity_result>>
        /\ UNCHANGED <<varsStab, varsReg, varsDb, varsLive, db_file,
                       varsBackend, varsData, varsReplay, varsJoin, varsTest,
                       varsCrop, varsMain, replay_op>>

\* A frame's resolver call: any input shape, any gallery answer.
NextBatch ==
    \E embeddings \in Embeddings, threshold \in Thresholds,
       rows \in [1..MaxBatch -> Rows], raises \in BOOLEAN :
        BatchSearch(embeddings, threshold, rows, raises)

InitRes ==
    /\ search = [fn |-> "none", label |-> NoneLabel, sim |-> NoneSim,
                 threshold |-> FaceThreshold]
    /\ identity_result = [name |-> UnknownName, sim |-> Inf]
    /\ batch = [fn |-> "none", embeddings |-> NoEmbeddings, threshold |-> 0,
                queried |-> FALSE, raised |-> FALSE, identity_results |-> <<>>,
                identities |-> <<>>]

\* batch_vector_search on one valid embedding whose nearest neighbour in the
\* gallery index is (label, sim).
BatchVectorSearch(label, sim, threshold) ==
    /\ search' = [fn |-> "batch_vector_search", label |-> label, sim |-> sim,
                  threshold |-> threshold]
    /\ identity_result' = BatchVectorSearchRow(label, sim, threshold)
    /\ UNCHANGED batch
    /\ UNCHANGED <<varsStab, varsReg, varsDb, varsLive, db_file, varsBackend,
                   varsData, varsReplay, varsJoin, varsTest, varsCrop,
                   varsMain, replay_op>>

\* find_best_match on an embedding whose nearest neighbour is (label, distance).
FindBestMatch(label, distance, threshold) ==
    /\ search' = [fn |-> "find_best_match", label |-> label, sim |-> distance,
                  threshold |-> threshold]
    /\ identity_result' = FindBestMatchRow(label, distance, threshold)
    /\ UNCHANGED batch
    /\ UNCHANGED <<varsStab, varsReg, varsDb, varsLive, db_file, varsBackend,
                   varsData, varsReplay, varsJoin, varsTest, varsCrop,
                   varsMain, replay_op>>

NextRes ==
    \/ \E label \in GalleryLabels \cup {NoneLabel},
          sim \in (0..MaxDist) \cup {NoneSim}, threshold \in Thresholds :
          BatchVectorSearch(label, sim, threshold)
    \/ \E label \in GalleryLabels, distance \in 0..MaxDist,
          threshold \in Thresholds :
          FindBestMatch(label, distance, threshold)

\* C4 (as claimed): for a nearest neighbour (label, d) and threshold t the
\* resolved identity is the gallery label (its name portion when the label is
\* composite) when d < t and "Unknown" when d >= t, d = t included; the
\* distance returned is d in both cases.
C4_ThresholdBoundary ==
    (search.fn # "none" /\ search.label # NoneLabel /\ search.sim # NoneSim) =>
        /\ search.sim < search.threshold =>
              identity_result.name \in {search.label, SplitDash(search.label)}
        /\ search.sim >= search.threshold => identity_result.name = "Unknown"
        /\ identity_result.sim = search.sim

\* The boundary as batch_vector_search alone implements it.
BatchThresholdBoundary ==
    (search.fn = "batch_vector_search" /\ search.label # NoneLabel
        /\ search.sim # NoneSim) =>
        /\ search.sim < search.threshold =>
              identity_result.name = SplitDash(search.label)
        /\ search.sim >= search.threshold => identity_result.name = "Unknown"
        /\ identity_result.sim = search.sim

(***************************************************************************)
(* Person IDs                                                              *)
(***************************************************************************)
\* f"{num:03d}"
Fmt3(num) ==
    IF num < 10 THEN "00" \o ToString(num)
    ELSE IF num < 100 THEN "0" \o ToString(num)
    ELSE ToString(num)

\* One prefix for both categories.
PrefixPolice(category) == "POLICE"

\* prefix = "POLICE" if category == "A" else "CRIM"
Prefix(category) == IF category = "A" THEN "POLICE" ELSE "CRIM"

\* f"{prefix}_{num:03d}"
MakePersonId(category, num) == Prefix(category) \o "_" \o Fmt3(num)

\* pid.startswith(prefix)
StartsWith(pid, prefix) ==
    Len(pid) >= Len(prefix) /\ SubSeq(pid, 1, Len(prefix)) = prefix

\* cat = "B" if name in poi else "A"
Category(name) == IF name \in Poi THEN "B" ELSE "A"

(***************************************************************************)
(* Offline registry (offline_preprocess.py)                                *)
(***************************************************************************)
InitReg ==
    /\ name_to_person_id = <<>>
    /\ person_id_counter = [c \in Categories |-> 1]
    /\ resolved = <<>>
    /\ first_seen_info = <<>>
    /\ camera_detections = <<>>

\* A get_person_id that allocates without consulting the name map first.
GetPersonIdNoLookup(name, category) ==
    [person_id |-> MakePersonId(category, person_id_counter[category]),
     counter   |-> [person_id_counter EXCEPT ![category] = @ + 1],
     map       |-> [n \in DOMAIN name_to_person_id \cup {name} |->
                       IF n = name
                       THEN MakePersonId(category, person_id_counter[category])
                       ELSE name_to_person_id[n]]]

\* get_person_id(name, category): the ID returned, and the registry afterwards.
GetPersonIdOffline(name, category) ==
    IF name \in DOMAIN name_to_person_id
    THEN [person_id |-> name_to_person_id[name],
          counter   |-> person_id_counter,
          map       |-> name_to_person_id]
    ELSE LET person_id == MakePersonId(category, person_id_counter[category])
         IN  [person_id |-> person_id,
              counter   |-> [person_id_counter EXCEPT ![category] = @ + 1],
              map       |-> [n \in DOMAIN name_to_person_id \cup {name} |->
                                IF n = name THEN person_id
                                ELSE name_to_person_id[n]]]

\* process_video, for a stabilized prediction, as far as the registry goes:
\* category from the POI list, then get_person_id(prediction, category).
ResolveOffline(prediction) ==
    LET category == Category(prediction)
        r == GetPersonIdOffline(prediction, category)
    IN  /\ name_to_person_id' = r.map
        /\ person_id_counter' = r.counter
        /\ resolved' = Append(resolved,
               [name |-> prediction, category |-> category,
                person_id |-> r.person_id])
        /\ UNCHANGED <<first_seen_info, camera_detections>>
        /\ UNCHANGED <<varsStab, varsRes, varsDb, varsLive, db_file,
                       varsBackend, varsData, varsReplay, varsJoin, varsTest,
                       varsCrop, varsMain, replay_op>>

\* Detections created in SpecOffline.
MaxOffline == 4

\* The videos' cameras and the global times of their frames in SpecOffline.
OfflineCameras == {"cam_01", "cam_02"}
OfflineTimes == {1, 2}

\* os.path.join("faces", os.path.basename(save_face_image(...))), the file
\* being f"{person_id}_{camera_id}.jpg".
FaceImageRelPath(person_id, camera_id) ==
    "faces/" \o person_id \o "_" \o camera_id \o ".jpg"

\* A first-seen table rewritten at every sighting.
FirstSeenOverwrite(info, person_id, camera_id, global_time) ==
    [p \in DOMAIN info \cup {person_id} |->
        IF p = person_id
        THEN [camera_id |-> camera_id, time |-> global_time,
              face_image_path |-> FaceImageRelPath(person_id, camera_id)]
        ELSE info[p]]

\* "if person_id not in first_seen_info: first_seen_info[person_id] = {...}"
FirstSeen(info, person_id, camera_id, global_time) ==
    IF person_id \in DOMAIN info
    THEN info
    ELSE [p \in DOMAIN info \cup {person_id} |->
             IF p = person_id
             THEN [camera_id |-> camera_id, time |-> global_time,
                   face_image_path |-> FaceImageRelPath(person_id, camera_id)]
             ELSE info[p]]

\* process_video, from a stabilized prediction to the detection record: the
\* frame is at global_time of the video of camera_id.
StabilizedDetection(prediction, camera_id, global_time) ==
    LET category == Category(prediction)
        r    == GetPersonIdOffline(prediction, category)
        info == FirstSeen(first_seen_info, r.person_id, camera_id, global_time)
    IN  /\ name_to_person_id' = r.map
        /\ person_id_counter' = r.counter
        /\ resolved' = Append(resolved,
               [name |-> prediction, category |-> category,
                person_id |-> r.person_id])
        /\ first_seen_info' = info
        /\ camera_detections' = Append(camera_detections,
               [person_id |-> r.person_id, category |-> category,
                camera_id |-> camera_id, timestamp |-> global_time,
                face_image_path |-> info[r.person_id].face_image_path])

\* The same where only the registry and the first-seen table are followed.
CreateDetection(prediction, camera_id, global_time) ==
    /\ StabilizedDetection(prediction, camera_id, global_time)
    /\ UNCHANGED <<varsStab, varsRes, varsDb, varsLive, db_file, varsBackend,
                   varsData, varsReplay, varsJoin, varsTest, varsCrop,
                   varsMain, replay_op>>

\* Stabilized predictions over the videos of two cameras.
NextOffline ==
    \E prediction \in {"ayush", "sharma", "Unknown"},
       camera_id \in OfflineCameras, global_time \in OfflineTimes :
        Len(camera_detections) < MaxOffline
            /\ CreateDetection(prediction, camera_id, global_time)

(***************************************************************************)
(* FaceDatabase (backend/face_database.py)                                 *)
(*                                                                         *)
(* self.database is a dict in insertion order: a sequence of records, one  *)
(* per key.                                                                *)
(***************************************************************************)
Keys(db) == {db[i].person_id : i \in 1..Len(db)}

IndexOf(db, person_id) == CHOOSE i \in 1..Len(db) : db[i].person_id = person_id

\* self.database.get(person_id); callers test the key with Keys first.
GetPerson(db, person_id) == db[IndexOf(db, person_id)]

\* not self.database[person_id].get("first_seen"): None is the only falsy
\* value stored, every timestamp written is a non-empty string.
Unset(first_seen) == first_seen = NoTime

\* add_person: self.database[person_id] = {...}, first_seen and last_seen None.
AddPersonTo(db, person_id, name, category) ==
    LET rec == [person_id |-> person_id, name |-> name, category |-> category,
                first_seen |-> NoTime, last_seen |-> NoTime]
    IN  IF person_id \in Keys(db)
        THEN [db EXCEPT ![IndexOf(db, person_id)] = rec]
        ELSE Append(db, rec)

\* An update_last_seen that writes first_seen on every call.
UpdateLastSeenOverwrite(db, person_id, timestamp) ==
    IF person_id \in Keys(db)
    THEN [db EXCEPT ![IndexOf(db, person_id)] =
             [@ EXCEPT !.first_seen = timestamp, !.last_seen = timestamp]]
    ELSE db

\* update_last_seen
UpdateLastSeenIn(db, person_id, timestamp) ==
    IF person_id \in Keys(db)
    THEN [db EXCEPT ![IndexOf(db, person_id)] =
             [@ EXCEPT !.first_seen = IF Unset(@) THEN timestamp ELSE @,
                       !.last_seen = timestamp]]
    ELSE db

\* Person IDs and names used for the interface calls of SpecFaceDb.
DbPersonIds == {"CRIM_001", "POLICE_001"}
DbNames == {"ayush", "sharma"}

InitDb ==
    /\ database = <<>>
    /\ calls = <<>>

InitFile == db_file = <<>>

\* face_db.add_person(person_id, name, category, ...), save_database included.
AddPerson(person_id, name, category) ==
    /\ database' = AddPersonTo(database, person_id, name, category)
    /\ db_file' = database'
    /\ calls' = Append(calls, [op |-> "add_person", person_id |-> person_id,
                               timestamp |-> NoTime])
    /\ UNCHANGED <<varsStab, varsRes, varsReg, varsLive, varsBackend,
                   varsData, varsReplay, varsJoin, varsTest, varsCrop,
                   varsMain, replay_op>>

\* An update_last_seen that calls save_database only when it wrote first_seen.
SavesOnFirstSeenOnly(db, person_id) ==
    person_id \in Keys(db) /\ Unset(GetPerson(db, person_id).first_seen)

\* Whether update_last_seen reaches self.save_database(): the call sits
\* inside "if person_id in self.database".
UpdateSaves(db, person_id) == person_id \in Keys(db)

\* face_db.update_last_seen(person_id, timestamp); it saves only when the
\* person exists.
UpdateLastSeen(person_id, timestamp) ==
    /\ database' = UpdateLastSeenIn(database, person_id, timestamp)
    /\ db_file' = IF UpdateSaves(database, person_id) THEN database' ELSE db_file
    /\ calls' = Append(calls, [op |-> "update_last_seen",
                               person_id |-> person_id,
                               timestamp |-> timestamp])
    /\ UNCHANGED <<varsStab, varsRes, varsReg, varsLive, varsBackend,
                   varsData, varsReplay, varsJoin, varsTest, varsCrop,
                   varsMain, replay_op>>

NextFaceDb ==
    \/ \E person_id \in DbPersonIds, name \in DbNames :
          Len(calls) < MaxDbCalls /\ AddPerson(person_id, name, Category(name))
    \/ \E person_id \in DbPersonIds, timestamp \in 1..MaxTime :
          Len(calls) < MaxDbCalls /\ UpdateLastSeen(person_id, timestamp)

(***************************************************************************)
(* Backend: the detection store (backend/database.py) and the WebSocket    *)
(* fan-out (WSManager in backend/main.py). The backend runs on one event   *)
(* loop: a coroutine runs alone from one await to the next, so every        *)
(* action below is the code between two suspension points.                 *)
(***************************************************************************)
\* WebSocket connections clients open on /ws/detections.
WS == {1, 2}

\* self.replay_task = None
NoTask == 0

\* previous_time = None
NonePrev == -1

\* A coroutine the event loop holds: a replay task ("replay") or the handler
\* of one POST /report-detection ("report"). pc is where it is suspended:
\* "created" (scheduled, not started), "sleep" (in asyncio.sleep), "send" (in
\* ws.send_json to ws, item j of mgr.active, for broadcast b), or how it
\* ended: "done", "cancelled", "failed". must_cancel is a task.cancel() not
\* yet delivered; stopped records that stop_replay cancelled it.
Coroutine(kind, speed_multiplier) ==
    [kind |-> kind, pc |-> "created", speed |-> speed_multiplier, i |-> 0,
     previous_time |-> NonePrev, wait |-> 0, b |-> 0, j |-> 0, ws |-> 0,
     must_cancel |-> FALSE, stopped |-> FALSE]

\* What replay_op holds after an operation other than a start or a stop.
OtherOp == [op |-> "other", busy |-> FALSE]

\* task.done()
Done(task) == task.pc \in {"done", "cancelled", "failed"}

\* How an awaited ws.send_json can end when nobody cancels the task.
Outcomes == {"ok", "raise"}

\* A broadcast whose loop has no try/except: a send that raises ends it.
BroadcastAbort(j, outcome) ==
    [j |-> j + 1, raised |-> outcome # "ok"]

\* WSManager.broadcast, after the send to item j ended with outcome: the bare
\* "except: pass" takes every exception, CancelledError included, and the
\* loop goes on with the next item of self.active.
BroadcastNext(j, outcome) ==
    [j |-> j + 1, raised |-> FALSE]

\* The send log when a send to ws starts for broadcast b.
SendStart(log, b, ws) ==
    Append(log, [b |-> b, ws |-> ws, outcome |-> "pending"])

\* The send log when the pending send of broadcast b ends with outcome.
SendEnd(log, b, outcome) ==
    [k \in 1..Len(log) |->
        IF log[k].b = b /\ log[k].outcome = "pending"
        THEN [log[k] EXCEPT !.outcome = outcome]
        ELSE log[k]]

\* The connections in the fan-out list.
Members(list) == {list[k] : k \in 1..Len(list)}

\* Broadcast b is suspended in a send.
InFlight(b) == \E n \in 1..Len(sends) : sends[n].b = b /\ sends[n].outcome = "pending"

\* A detection whose id is the length of the store before it is added.
ReportDetectionFromZero(store, data) ==
    [id |-> Len(store), detected |-> data.detected,
     category |-> data.category, camera_id |-> data.camera_id,
     person_id |-> data.person_id, person_name |-> data.person_name]

\* Detection(id=len(db.detections) + 1, ...) of report(data).
ReportDetection(store, data) ==
    [id |-> Len(store) + 1, detected |-> data.detected,
     category |-> data.category, camera_id |-> data.camera_id,
     person_id |-> data.person_id, person_name |-> data.person_name]

\* det_dict of report(data): det.dict() with the person's name taken from the
\* backend's face database when the person is known there.
DetDict(det, db) ==
    IF det.person_id # NoneId /\ det.person_id \in Keys(db)
    THEN [det EXCEPT !.person_name = GetPerson(db, det.person_id).name]
    ELSE det

\* An alert test that looks at detected alone.
AlertsAnyCategory(data) == data.detected

\* if data.detected and data.category == "B"
Alerts(data) == data.detected /\ data.category = "B"

\* The store and fan-out part of report(data), up to its first suspension:
\* db.add(det) and, for an alert, mgr.broadcast(det_dict) as far as the first
\* send. db is the backend's face database after the handler's update.
ReportBackend(data, db) ==
    LET det == ReportDetection(db_detections, data)
        b   == Len(broadcasts) + 1
    IN  /\ db_detections' = Append(db_detections, det)
        /\ origin' = Append(origin, [task |-> NoTask, event |-> 0])
        /\ broadcasts' = IF Alerts(data)
                         THEN Append(broadcasts, DetDict(det, db))
                         ELSE broadcasts
        /\ stayed' = IF Alerts(data)
                     THEN Append(stayed, Members(active))
                     ELSE stayed
        /\ IF Alerts(data) /\ active # <<>>
           THEN /\ tasks' = Append(tasks,
                       [Coroutine("report", 1) EXCEPT
                           !.pc = "send", !.b = b, !.j = 1, !.ws = active[1]])
                /\ sends' = SendStart(sends, b, active[1])
           ELSE UNCHANGED <<tasks, sends>>
        /\ UNCHANGED active

InitBackend ==
    /\ db_detections = <<>>
    /\ origin = <<>>
    /\ active = <<>>
    /\ tasks = <<>>
    /\ broadcasts = <<>>
    /\ sends = <<>>
    /\ stayed = <<>>

\* ws_endpoint up to its first receive: mgr.connect(ws).
Connect(ws) ==
    /\ \A k \in 1..Len(active) : active[k] # ws
    /\ active' = Append(active, ws)
    /\ replay_op' = OtherOp
    /\ UNCHANGED <<db_detections, origin, tasks, broadcasts, sends, stayed>>
    /\ UNCHANGED <<varsStab, varsRes, varsReg, varsDb, varsLive, db_file,
                   varsData, varsReplay, varsJoin, varsTest, varsCrop,
                   varsMain>>

\* self.active.remove(ws): the list without its first item equal to ws.
Remove(list, ws) ==
    LET k == CHOOSE n \in 1..Len(list) :
                 list[n] = ws /\ \A m \in 1..(n - 1) : list[m] # ws
    IN  SubSeq(list, 1, k - 1) \o SubSeq(list, k + 1, Len(list))

\* ws_endpoint when receive_text raises WebSocketDisconnect: mgr.disconnect(ws).
Disconnect(ws) ==
    /\ \E k \in 1..Len(active) : active[k] = ws
    /\ active' = Remove(active, ws)
    /\ stayed' = [b \in 1..Len(stayed) |->
                     IF InFlight(b) THEN stayed[b] \ {ws} ELSE stayed[b]]
    /\ replay_op' = OtherOp
    /\ UNCHANGED <<db_detections, origin, tasks, broadcasts, sends>>
    /\ UNCHANGED <<varsStab, varsRes, varsReg, varsDb, varsLive, db_file,
                   varsData, varsReplay, varsJoin, varsTest, varsCrop,
                   varsMain>>

\* The handler of a report resumes from "await ws.send_json(msg)" inside
\* mgr.broadcast and runs to its next send or to its return.
ReportSendReturns(t, outcome) ==
    LET self  == tasks[t]
        next  == BroadcastNext(self.j, outcome)
        ended == SendEnd(sends, self.b, outcome)
    IN  /\ self.kind = "report"
        /\ self.pc = "send"
        /\ IF next.raised
           THEN /\ tasks' = [tasks EXCEPT ![t].pc = "failed"]
                /\ sends' = ended
           ELSE IF next.j <= Len(active)
                THEN /\ tasks' = [tasks EXCEPT ![t].j = next.j,
                                               ![t].ws = active[next.j]]
                     /\ sends' = SendStart(ended, self.b, active[next.j])
                ELSE /\ tasks' = [tasks EXCEPT ![t].pc = "done"]
                     /\ sends' = ended
        /\ replay_op' = OtherOp
        /\ UNCHANGED <<db_detections, origin, active, broadcasts, stayed>>
        /\ UNCHANGED <<varsStab, varsRes, varsReg, varsDb, varsLive, db_file,
                       varsData, varsReplay, varsJoin, varsTest, varsCrop,
                       varsMain>>

(***************************************************************************)
(* Live pipeline: send_detection (backend/model_integration.py) in the     *)
(* frame process and POST /report-detection (backend/main.py) in the       *)
(* backend process. Each process imports face_database and so holds its    *)
(* own FaceDatabase, loaded from and saved to the same file.               *)
(***************************************************************************)
Procs == {"frames", "backend"}

\* CURRENT_CAM = "cam_01" of the frame process.
CURRENT_CAM == "cam_01"

\* for person_id, person_data in face_db.database.items(): the first entry,
\* in insertion order, with this name and category (0 when there is none).
FirstMatch(db, name, category) ==
    LET hits == {i \in 1..Len(db) :
                    db[i].name = name /\ db[i].category = category}
    IN  IF hits = {} THEN 0
        ELSE CHOOSE i \in hits : \A j \in hits : i <= j

\* existing_ids = [pid for pid in face_db.database.keys() if pid.startswith(prefix)]
ExistingIds(db, category) ==
    {i \in 1..Len(db) : StartsWith(db[i].person_id, Prefix(category))}

\* model_integration.get_person_id(name, category)
GetPersonIdLive(db, name, category) ==
    IF FirstMatch(db, name, category) # 0
    THEN db[FirstMatch(db, name, category)].person_id
    ELSE MakePersonId(category, Cardinality(ExistingIds(db, category)) + 1)

\* The face-database part of report(data) on the backend's database:
\* update_last_seen for a known person_id, add_person for an unknown one that
\* comes with a person_name, nothing otherwise.
ReportHandler(db, data) ==
    IF data.person_id = NoneId THEN db
    ELSE IF data.person_id \in Keys(db)
         THEN UpdateLastSeenIn(db, data.person_id, data.timestamp)
         ELSE IF data.person_name # NoneName
              THEN AddPersonTo(db, data.person_id, data.person_name,
                               data.category)
              ELSE db

\* Whether report(data) reaches a save_database call.
ReportSaves(db, data) ==
    /\ data.person_id # NoneId
    /\ data.person_id \in Keys(db) \/ data.person_name # NoneName

NoOp == [op |-> "none", person_id |-> NoneId, person_name |-> NoneName,
         timestamp |-> NoTime, delivered |-> FALSE, generated |-> FALSE,
         taken |-> FALSE]

InitLive ==
    /\ face_db = [p \in Procs |-> <<>>]
    /\ clock = 1
    /\ sent = <<>>
    /\ last_op = NoOp

\* send_detection(name, ...) in the frame process. requests.post blocks until
\* the backend has answered, so when the request is delivered the backend's
\* handler runs to its end inside this call; when it is not (connection
\* error, caught) the backend is not touched. The frame process runs where
\* no subscriber is connected, so the handler's broadcast has nothing to
\* await.
SendDetection(name, delivered) ==
    LET cat       == Category(name)
        timestamp == clock
        mine      == face_db["frames"]
        person_id == GetPersonIdLive(mine, name, cat)
        known     == person_id \in Keys(mine)
        added     == IF known THEN mine
                     ELSE AddPersonTo(mine, person_id, name, cat)
        updated   == UpdateLastSeenIn(added, person_id, timestamp)
        data      == [person_id |-> person_id, person_name |-> name,
                      category |-> cat, timestamp |-> timestamp,
                      detected |-> TRUE, camera_id |-> CURRENT_CAM]
        theirs    == face_db["backend"]
    IN  /\ face_db' = [face_db EXCEPT
               !["frames"] = updated,
               !["backend"] = IF delivered THEN ReportHandler(theirs, data)
                              ELSE theirs]
        /\ db_file' = IF delivered /\ ReportSaves(theirs, data)
                      THEN ReportHandler(theirs, data)
                      ELSE updated
        /\ clock' = clock + 1
        /\ sent' = Append(sent, [name |-> name, category |-> cat,
                                 person_id |-> person_id])
        /\ last_op' = [op |-> "send_detection", person_id |-> person_id,
                       person_name |-> name, timestamp |-> timestamp,
                       delivered |-> delivered,
                       generated |-> FirstMatch(mine, name, cat) = 0,
                       taken |-> known]
        /\ IF delivered
           THEN ReportBackend(data, ReportHandler(theirs, data))
           ELSE UNCHANGED varsBackend
        /\ UNCHANGED <<varsStab, varsRes, varsReg, varsDb, varsData,
                       varsReplay, varsJoin, varsTest, varsCrop, varsMain,
                       replay_op>>

\* Request bodies other clients POST to /report-detection: person_id and
\* person_name are the caller's choice and optional; no timestamp is given,
\* so the handler takes datetime.now().
ExternalReports ==
    {[person_id |-> "CRIM_002", person_name |-> "kanika", category |-> "B",
      detected |-> TRUE, camera_id |-> "cam_02"],
     [person_id |-> "CRIM_002", person_name |-> NoneName, category |-> "B",
      detected |-> TRUE, camera_id |-> "cam_02"],
     [person_id |-> NoneId, person_name |-> "kanika", category |-> "B",
      detected |-> TRUE, camera_id |-> "cam_02"]}

\* report(data) for a request of another client.
Report(body) ==
    LET data == [person_id |-> body.person_id,
                 person_name |-> body.person_name,
                 category |-> body.category, timestamp |-> clock,
                 detected |-> body.detected, camera_id |-> body.camera_id]
        theirs == face_db["backend"]
    IN  /\ face_db' = [face_db EXCEPT !["backend"] = ReportHandler(theirs, data)]
        /\ db_file' = IF ReportSaves(theirs, data)
                      THEN ReportHandler(theirs, data)
                      ELSE db_file
        /\ clock' = clock + 1
        /\ last_op' = [op |-> "report", person_id |-> body.person_id,
                       person_name |-> body.person_name, timestamp |-> clock,
                       delivered |-> TRUE, generated |-> FALSE, taken |-> FALSE]
        /\ ReportBackend(data, ReportHandler(theirs, data))
        /\ replay_op' = OtherOp
        /\ UNCHANGED <<sent, varsStab, varsRes, varsReg, varsDb, varsData,
                       varsReplay, varsJoin, varsTest, varsCrop, varsMain>>

\* A process (re)starts: face_db = FaceDatabase() loads the file.
LoadDatabase(p) ==
    /\ face_db' = [face_db EXCEPT ![p] = db_file]
    /\ last_op' = [NoOp EXCEPT !.op = "load"]
    /\ UNCHANGED <<db_file, clock, sent, varsStab, varsRes, varsReg, varsDb,
                   varsBackend, varsData, varsReplay, varsJoin, varsTest,
                   varsCrop, varsMain, replay_op>>

\* Names the frame process reports in SpecLive.
LiveNames == {"ayush", "sharma"}

NextLive ==
    \/ \E name \in LiveNames, delivered \in BOOLEAN :
          clock <= MaxLive /\ SendDetection(name, delivered)
    \/ \E body \in ExternalReports : clock <= MaxLive /\ Report(body)
    \/ \E p \in Procs : clock <= MaxLive /\ LoadDatabase(p)

\* The frame process alone (no backend listening) next to the offline
\* registry, both starting empty.
NextAlloc ==
    \/ \E prediction \in Names :
          Len(resolved) + Len(sent) < MaxAlloc /\ ResolveOffline(prediction)
    \/ \E name \in Names :
          Len(resolved) + Len(sent) < MaxAlloc /\ SendDetection(name, FALSE)

(***************************************************************************)
(* Person-ID and face-database properties                                  *)
(***************************************************************************)
\* The IDs the k-th new name of a category is to receive.
ExpectedIds ==
    [c \in Categories |->
        IF c = "B" THEN <<"CRIM_001", "CRIM_002", "CRIM_003">>
        ELSE <<"POLICE_001", "POLICE_002">>]

\* Names of category c among the first n entries of the call log L.
NamesSeen(L, n, c) == {L[j].name : j \in {k \in 1..n : L[k].category = c}}

\* Every entry of the call log L carries the ID first given to its name, and
\* a name seen for the first time carries the next ID of its category.
AllocatedInOrder(L) ==
    \A i \in 1..Len(L) :
        IF \E j \in 1..(i - 1) : L[j].name = L[i].name
        THEN \A j \in 1..(i - 1) :
                L[j].name = L[i].name => L[i].person_id = L[j].person_id
        ELSE LET k == Cardinality(NamesSeen(L, i - 1, L[i].category)) + 1
             IN  /\ k <= Len(ExpectedIds[L[i].category])
                 /\ L[i].person_id = ExpectedIds[L[i].category][k]

\* C5: from an empty registry the k-th new category-B name receives CRIM_00k
\* and the k-th new category-A name POLICE_00k, independently; a name seen
\* before receives the ID it was first given and the counter does not advance
\* (offline registry and, with an initially empty database, send_detection).
C5_PersonIdAllocation ==
    /\ AllocatedInOrder(resolved)
    /\ \A c \in Categories :
          person_id_counter[c] =
              Cardinality(NamesSeen(resolved, Len(resolved), c)) + 1
    /\ AllocatedInOrder(sent)
    /\ \A c \in Categories :
          Cardinality(ExistingIds(face_db["frames"], c)) =
              Cardinality(NamesSeen(sent, Len(sent), c))

\* C5 witness: three distinct category-B names resolved in sequence, then the
\* first of them again, then a category-A name.
C5_Witness ==
    /\ Len(resolved) = 5
    /\ resolved[1].person_id = "CRIM_001"
    /\ resolved[2].person_id = "CRIM_002"
    /\ resolved[3].person_id = "CRIM_003"
    /\ resolved[4].name = resolved[1].name
    /\ resolved[4].person_id = "CRIM_001"
    /\ resolved[5].person_id = "POLICE_001"
    /\ person_id_counter["B"] = 4

\* C6 (as claimed): when get_person_id generates an ID for a name that is not
\* in the database, the ID is not already a key of the database, so the
\* record stored under the ID reported for a name carries that name.
C6_IdsNeverReused ==
    last_op.op = "send_detection" =>
        /\ last_op.generated => ~last_op.taken
        /\ last_op.person_id \in Keys(face_db["frames"])
        /\ GetPerson(face_db["frames"], last_op.person_id).name
               = last_op.person_name

\* Index of the last add_person(p) in the call log (0 when there is none).
LastAdd(p) ==
    LET adds == {i \in 1..Len(calls) :
                    calls[i].op = "add_person" /\ calls[i].person_id = p}
    IN  IF adds = {} THEN 0 ELSE CHOOSE i \in adds : \A j \in adds : j <= i

\* The update_last_seen(p, _) calls made since the last add_person(p).
UpdatesSinceAdd(p) ==
    LET IsUpdate(c) == c.op = "update_last_seen" /\ c.person_id = p
    IN  SelectSeq(SubSeq(calls, LastAdd(p) + 1, Len(calls)), IsUpdate)

\* C7: for a person in the database whose first_seen was unset, after
\* update_last_seen calls with T1, ..., Tn the record has first_seen = T1 and
\* last_seen = Tn (with T1 then T2: first_seen = T1, last_seen = T2); a call
\* for an unknown person_id stores nothing.
C7_FirstSeenUnderUpdate ==
    /\ Keys(database) = {calls[i].person_id :
                            i \in {k \in 1..Len(calls) : calls[k].op = "add_person"}}
    /\ \A p \in Keys(database) :
          LET ups == UpdatesSinceAdd(p)
              rec == GetPerson(database, p)
          IN  IF ups = <<>>
              THEN rec.first_seen = NoTime /\ rec.last_seen = NoTime
              ELSE /\ rec.first_seen = ups[1].timestamp
                   /\ rec.last_seen = ups[Len(ups)].timestamp

\* C7 witness: update_last_seen with T1 and then with T2 > T1 on a person
\* whose first_seen was unset.
C7_Witness ==
    \E p \in Keys(database) :
        LET ups == UpdatesSinceAdd(p)
            rec == GetPerson(database, p)
        IN  /\ Len(ups) = 2
            /\ ups[1].timestamp < ups[2].timestamp
            /\ rec.first_seen = ups[1].timestamp
            /\ rec.last_seen = ups[2].timestamp

\* C8 (as claimed): over add_person and update_last_seen, once a person's
\* first_seen is non-null no later call changes it.
C8_FirstSeenWriteOnce ==
    [][\A p \in Keys(database) :
          GetPerson(database, p).first_seen # NoTime =>
              /\ p \in Keys(database')
              /\ GetPerson(database', p).first_seen
                     = GetPerson(database, p).first_seen]_vars

\* C9 (as claimed): after the backend has handled a report carrying person_id
\* and person_name, first or repeat, the stored record has last_seen equal to
\* the report's timestamp and first_seen set.
C9_EverySightingUpdatesLastSeen ==
    (/\ last_op.op \in {"report", "send_detection"}
     /\ last_op.delivered
     /\ last_op.person_id # NoneId
     /\ last_op.person_name # NoneName) =>
        /\ last_op.person_id \in Keys(face_db["backend"])
        /\ GetPerson(face_db["backend"], last_op.person_id).last_seen
               = last_op.timestamp
        /\ GetPerson(face_db["backend"], last_op.person_id).first_seen # NoTime

\* C10 (as claimed): after the frame process and the backend have both
\* finished handling a sighting, the durable record of the person carries the
\* first_seen and last_seen that update_last_seen wrote for it.
C10_NoLostUpdate ==
    (last_op.op = "send_detection" /\ last_op.delivered) =>
        /\ last_op.person_id \in Keys(db_file)
        /\ GetPerson(db_file, last_op.person_id).first_seen
               = GetPerson(face_db["frames"], last_op.person_id).first_seen
        /\ GetPerson(db_file, last_op.person_id).last_seen = last_op.timestamp

(***************************************************************************)
(* Simulation replay (backend/simulation.py) and its endpoints             *)
(* (backend/main.py).                                                      *)
(***************************************************************************)
\* str.lower() and str.upper() on the camera ids in use.
Lower(camera_id) ==
    CASE camera_id = "CAM_01" -> "cam_01"
      [] camera_id = "CAM_02" -> "cam_02"
      [] OTHER -> camera_id

Upper(camera_id) ==
    CASE camera_id = "cam_01" -> "CAM_01"
      [] camera_id = "cam_02" -> "CAM_02"
      [] OTHER -> camera_id

\* abs(x)
Abs(x) == IF x < 0 THEN -x ELSE x

\* Python None, for the result of the join.
NoneDetection ==
    [person_id |-> NoneId, category |-> "none", camera_id |-> "none",
     timestamp |-> 0]

\* A search that also takes a record as near as the best so far.
RECURSIVE BestMatchLastTie(_, _, _, _)
BestMatchLastTie(dets, person_id, global_time, n) ==
    IF n = 0
    THEN [best_match |-> NoneDetection, min_time_diff |-> Inf]
    ELSE LET prev      == BestMatchLastTie(dets, person_id, global_time, n - 1)
             det       == dets[n]
             time_diff == Abs(det.timestamp - global_time)
         IN  IF det.person_id = person_id /\ time_diff <= prev.min_time_diff
             THEN [best_match |-> det, min_time_diff |-> time_diff]
             ELSE prev

\* The loop "for det in self.detections_by_camera[camera_id]" after its first
\* n items: best_match and min_time_diff.
RECURSIVE BestMatch(_, _, _, _)
BestMatch(dets, person_id, global_time, n) ==
    IF n = 0
    THEN [best_match |-> NoneDetection, min_time_diff |-> Inf]
    ELSE LET prev      == BestMatch(dets, person_id, global_time, n - 1)
             det       == dets[n]
             time_diff == Abs(det.timestamp - global_time)
         IN  IF det.person_id = person_id /\ time_diff < prev.min_time_diff
             THEN [best_match |-> det, min_time_diff |-> time_diff]
             ELSE prev

\* get_detection_for_timeline_event(timeline_event) on the loaded files.
GetDetectionForTimelineEvent(by_camera, timeline_event) ==
    LET camera_id_raw   == timeline_event.camera_id
        camera_id_lower == Lower(camera_id_raw)
        camera_id       == IF camera_id_lower \in DOMAIN by_camera
                           THEN camera_id_lower
                           ELSE Upper(camera_id_raw)
    IN  IF camera_id \notin DOMAIN by_camera
        THEN NoneDetection
        ELSE BestMatch(by_camera[camera_id], timeline_event.person_id,
                       timeline_event.global_time,
                       Len(by_camera[camera_id])).best_match

\* A wait that multiplies by the speed instead of dividing by it.
WaitTimeTimesSpeed(current_time, previous_time, speed_multiplier) ==
    (current_time - previous_time) * 2 * speed_multiplier

\* wait_time = (current_time - previous_time) / speed_multiplier, counted in
\* half seconds; the speeds in use divide every doubled difference exactly.
WaitTime(current_time, previous_time, speed_multiplier) ==
    IF speed_multiplier > 0
    THEN ((current_time - previous_time) * 2) \div speed_multiplier
    ELSE -(((current_time - previous_time) * 2) \div (-speed_multiplier))

\* A loop that goes on whatever is_running says.
LoopNeverBreaks(running) == FALSE

\* if not self.is_running: break
LoopBreaks(running) == ~running

\* Detection(id=len(self.db.detections) + 1, detected=True, category=category,
\* camera_id=camera_id, timestamp=sim_timestamp, coords=coords): person_id and
\* person_name are not passed and keep their default, None.
ReplayDetection(store, found) ==
    [id |-> Len(store) + 1, detected |-> TRUE, category |-> found.category,
     camera_id |-> Lower(found.camera_id), person_id |-> NoneId,
     person_name |-> NoneName]

\* A pacing reference that stays what it was.
PreviousTimeKept(previous_time, current_time) == previous_time

\* previous_time = current_time, before the join is tried.
PreviousTime(previous_time, current_time) == current_time

\* Where a replay task stands after it ran from cx on: its next suspension
\* point or its end, with the store and the logs as it left them.
Halt(cx, pc, i, wait) ==
    [cx EXCEPT !.pc = pc, !.i = i, !.wait = wait, !.b = 0, !.j = 0, !.ws = 0]

\* replay_detections from the top of the loop body for timeline[i] (ReplayLoop)
\* and from the statement after the pacing sleep (Emit), run until the task
\* suspends or ends. cx carries the task's locals and the state it changes.
RECURSIVE ReplayLoop(_, _)
RECURSIVE Emit(_, _)
ReplayLoop(cx, i) ==
    IF i > Len(timeline) \/ LoopBreaks(cx.is_running)
    THEN Halt([cx EXCEPT !.is_running = FALSE], "done", i, 0)
    ELSE LET current_time == timeline[i].global_time
             skip == [cx EXCEPT !.pacing =
                         Append(@, [task |-> cx.t, event |-> i, wait |-> 0])]
         IN  IF cx.previous_time = NonePrev
             THEN Emit(skip, i)
             ELSE IF cx.speed = 0
                  THEN Halt(cx, "failed", i, 0)
                  ELSE LET wait_time == WaitTime(current_time,
                                                 cx.previous_time, cx.speed)
                       IN  IF wait_time > 0
                           THEN Halt([cx EXCEPT !.pacing =
                                         Append(@, [task |-> cx.t, event |-> i,
                                                    wait |-> wait_time])],
                                     "sleep", i, wait_time)
                           ELSE Emit(skip, i)

Emit(cx, i) ==
    LET timeline_event == timeline[i]
        found == GetDetectionForTimelineEvent(detections_by_camera,
                                              timeline_event)
        c1    == [cx EXCEPT !.previous_time =
                               PreviousTime(@, timeline_event.global_time)]
        det   == ReplayDetection(cx.db_detections, found)
        c2    == [c1 EXCEPT !.db_detections = Append(@, det),
                            !.origin = Append(@, [task |-> cx.t, event |-> i])]
        c3    == [c2 EXCEPT !.broadcasts = Append(@, det),
                            !.stayed = Append(@, Members(active))]
    IN  IF found = NoneDetection
        THEN ReplayLoop(c1, i + 1)
        ELSE IF found.category = "B"
             THEN IF active = <<>>
                  THEN ReplayLoop(c3, i + 1)
                  ELSE [c3 EXCEPT
                           !.pc = "send", !.i = i, !.wait = 0,
                           !.b = Len(c3.broadcasts), !.j = 1, !.ws = active[1],
                           !.sends = SendStart(@, Len(c3.broadcasts), active[1])]
             ELSE ReplayLoop(c2, i + 1)

\* The locals of task t and the state a replay task changes, before a step.
Context(t) ==
    [t |-> t, speed |-> tasks[t].speed, previous_time |-> tasks[t].previous_time,
     pc |-> tasks[t].pc, i |-> tasks[t].i, wait |-> tasks[t].wait,
     b |-> tasks[t].b, j |-> tasks[t].j, ws |-> tasks[t].ws,
     db_detections |-> db_detections, origin |-> origin,
     broadcasts |-> broadcasts, sends |-> sends, stayed |-> stayed,
     pacing |-> pacing,
     is_running |-> is_running]

\* The state after task t ran to where r says.
Becomes(t, r) ==
    /\ tasks' = [tasks EXCEPT ![t] =
                    [@ EXCEPT !.pc = r.pc, !.i = r.i, !.wait = r.wait,
                              !.previous_time = r.previous_time,
                              !.b = r.b, !.j = r.j, !.ws = r.ws,
                              !.must_cancel = FALSE]]
    /\ db_detections' = r.db_detections
    /\ origin' = r.origin
    /\ broadcasts' = r.broadcasts
    /\ sends' = r.sends
    /\ stayed' = r.stayed
    /\ pacing' = r.pacing
    /\ is_running' = r.is_running
    /\ replay_op' = OtherOp
    /\ UNCHANGED <<active, replay_task>>
    /\ UNCHANGED <<varsStab, varsRes, varsReg, varsDb, varsLive, db_file,
                   varsData, varsJoin, varsTest, varsCrop, varsMain>>

\* The files offline preprocessing leaves: each event of the timeline has its
\* record in the file of its camera; emptied tells whether a later video on
\* cam_02 with no detection has overwritten that file with an empty list.
PersonIds == {"CRIM_001", "POLICE_001"}
SimTimes == {0, 2, 5}

\* The camera a person is seen on and the category of the person's ID.
CameraOf(person_id) == IF person_id = "CRIM_001" THEN "cam_01" ELSE "cam_02"
CategoryOf(person_id) == IF StartsWith(person_id, "CRIM") THEN "B" ELSE "A"

Events ==
    {[global_time |-> g, camera_id |-> CameraOf(p), person_id |-> p] :
        g \in SimTimes, p \in PersonIds}

\* global_timeline.sort(key=lambda x: x["global_time"])
Sorted(tl) ==
    \A k \in 1..(Len(tl) - 1) : tl[k].global_time <= tl[k + 1].global_time

\* The timelines of at most n events preprocessing can write.
Timelines(n) ==
    UNION {{tl \in [1..k -> Events] : Sorted(tl)} : k \in 0..n}

RECURSIVE RecordsOf(_, _, _)
RecordsOf(tl, camera_id, n) ==
    IF n = 0 THEN <<>>
    ELSE LET rest == RecordsOf(tl, camera_id, n - 1)
         IN  IF tl[n].camera_id = camera_id
             THEN Append(rest, [person_id |-> tl[n].person_id,
                                category |-> CategoryOf(tl[n].person_id),
                                camera_id |-> camera_id,
                                timestamp |-> tl[n].global_time])
             ELSE rest

FilesOf(tl, emptied) ==
    [cam_01 |-> RecordsOf(tl, "cam_01", Len(tl)),
     cam_02 |-> IF emptied THEN <<>> ELSE RecordsOf(tl, "cam_02", Len(tl))]

SimulationData(n) ==
    {[timeline |-> tl, detections |-> FilesOf(tl, emptied)] :
        tl \in Timelines(n), emptied \in BOOLEAN}

\* Timeline lengths loaded where only the pacing is followed.
MaxEvents == 3

\* Timeline lengths loaded where starts, stops and subscribers interleave.
MaxReplayEvents == 2

\* speed of POST /simulation/start?speed=...
Speeds == {-1, 1, 2}

\* speed where the endpoints are followed: the parameter is any float, zero
\* included.
EndpointSpeeds == Speeds \cup {0}

\* Replay tasks and report handlers the model lets the event loop hold.
MaxTasks == 2

\* Timeline lengths loaded, and reports posted, where live reports run next
\* to the replay.
MaxAlertEvents == 2
MaxAlertReports == 1

\* Reports the model lets clients post where only reports are followed.
MaxStore == 2

InitData ==
    /\ data_loaded = FALSE
    /\ timeline = <<>>
    /\ detections_by_camera = [c \in {} |-> <<>>]

InitReplay ==
    /\ is_running = FALSE
    /\ replay_task = NoTask
    /\ pacing = <<>>
    /\ replay_op = [op |-> "none", busy |-> FALSE]

\* simulation_replay = SimulationReplay(mgr, db) followed by a successful
\* load_simulation_data() when the module is imported.
LoadSimulationData(data) ==
    /\ ~data_loaded
    /\ data_loaded' = TRUE
    /\ timeline' = data.timeline
    /\ detections_by_camera' = data.detections
    /\ replay_op' = OtherOp
    /\ UNCHANGED <<varsStab, varsRes, varsReg, varsDb, varsLive, db_file,
                   varsBackend, varsReplay, varsJoin, varsTest, varsCrop,
                   varsMain>>

\* A start_replay that never finds a replay running.
NeverBusy == FALSE

\* if self.replay_task and not self.replay_task.done()
ReplayBusy == replay_task # NoTask /\ ~Done(tasks[replay_task])

\* start_simulation(speed) and the delayed start of lifespan: start_replay.
\* create_task schedules the coroutine; it runs at a later step.
StartReplay(speed_multiplier) ==
    /\ data_loaded
    /\ IF ReplayBusy
       THEN UNCHANGED <<tasks, replay_task>>
       ELSE /\ tasks' = Append(tasks, Coroutine("replay", speed_multiplier))
            /\ replay_task' = Len(tasks) + 1
    /\ replay_op' = [op |-> "start", busy |-> replay_task # NoTask
                                              /\ ~Done(tasks[replay_task])]
    /\ UNCHANGED <<is_running, pacing, db_detections, origin, active,
                   broadcasts, sends, stayed>>
    /\ UNCHANGED <<varsStab, varsRes, varsReg, varsDb, varsLive, db_file,
                   varsData, varsJoin, varsTest, varsCrop, varsMain>>

\* A stop_replay that cancels the task and leaves is_running to it.
StopReplayCancelOnly ==
    /\ data_loaded
    /\ IF replay_task # NoTask /\ ~Done(tasks[replay_task])
       THEN tasks' = [tasks EXCEPT ![replay_task].must_cancel = TRUE,
                                   ![replay_task].stopped = TRUE]
       ELSE UNCHANGED tasks
    /\ replay_op' = [op |-> "stop", busy |-> replay_task # NoTask
                                             /\ ~Done(tasks[replay_task])]
    /\ UNCHANGED <<is_running, replay_task, pacing, db_detections, origin,
                   active, broadcasts, sends, stayed>>
    /\ UNCHANGED <<varsStab, varsRes, varsReg, varsDb, varsLive, db_file,
                   varsData, varsJoin, varsTest, varsCrop, varsMain>>

\* stop_simulation and the shutdown of lifespan: stop_replay.
StopReplay ==
    /\ data_loaded
    /\ is_running' = FALSE
    /\ IF replay_task # NoTask /\ ~Done(tasks[replay_task])
       THEN tasks' = [tasks EXCEPT ![replay_task].must_cancel = TRUE,
                                   ![replay_task].stopped = TRUE]
       ELSE UNCHANGED tasks
    /\ replay_op' = [op |-> "stop", busy |-> replay_task # NoTask
                                             /\ ~Done(tasks[replay_task])]
    /\ UNCHANGED <<replay_task, pacing, db_detections, origin, active,
                   broadcasts, sends, stayed>>
    /\ UNCHANGED <<varsStab, varsRes, varsReg, varsDb, varsLive, db_file,
                   varsData, varsJoin, varsTest, varsCrop, varsMain>>

\* simulation_status()["is_running"]
SimulationStatus == IF data_loaded THEN is_running ELSE FALSE

\* An endpoint guard that lets every request through.
NeverDisabled == FALSE

\* "if not SIMULATION_MODE or simulation_replay is None": simulation_replay is
\* None when the mode is off and when load_simulation_data returned False.
SimulationDisabled == ~data_loaded

\* What an endpoint that does not reach start_replay or stop_replay leaves:
\* op tells how it ended, with {"error": ...} returned ("start_error",
\* "stop_error") or with AttributeError raised on simulation_replay = None
\* ("start_raise", "stop_raise"). Nothing else changes.
Responds(op) ==
    /\ replay_op' = [op |-> op, busy |-> FALSE]
    /\ UNCHANGED <<varsStab, varsRes, varsReg, varsDb, varsLive, db_file,
                   varsBackend, varsData, varsReplay, varsJoin, varsTest,
                   varsCrop, varsMain>>

\* POST /simulation/start?speed=...
StartSimulation(speed) ==
    IF SimulationDisabled
    THEN Responds("start_error")
    ELSE IF ~data_loaded
         THEN Responds("start_raise")
         ELSE StartReplay(speed)

\* POST /simulation/stop
StopSimulation ==
    IF SimulationDisabled
    THEN Responds("stop_error")
    ELSE IF ~data_loaded
         THEN Responds("stop_raise")
         ELSE StopReplay

\* The event loop runs a replay task for the first time.
TaskStarts(t) ==
    /\ tasks[t].kind = "replay"
    /\ tasks[t].pc = "created"
    /\ IF tasks[t].must_cancel
       THEN Becomes(t, Halt(Context(t), "cancelled", 0, 0))
       ELSE IF timeline = <<>>
            THEN Becomes(t, Halt(Context(t), "done", 0, 0))
            ELSE Becomes(t, ReplayLoop([Context(t) EXCEPT !.is_running = TRUE], 1))

\* The pacing sleep of a replay task ends: the time has passed, or the task
\* was cancelled and CancelledError leaves replay_detections.
SleepReturns(t) ==
    /\ tasks[t].kind = "replay"
    /\ tasks[t].pc = "sleep"
    /\ IF tasks[t].must_cancel
       THEN Becomes(t, Halt(Context(t), "cancelled", tasks[t].i, 0))
       ELSE Becomes(t, Emit(Context(t), tasks[t].i))

\* A send of a replay task's broadcast ends: with outcome, or, for a cancelled
\* task, with CancelledError raised inside the try of mgr.broadcast.
ReplaySendReturns(t, outcome) ==
    LET self  == tasks[t]
        how   == IF self.must_cancel THEN "cancelled" ELSE outcome
        next  == BroadcastNext(self.j, how)
        ended == [Context(t) EXCEPT !.sends = SendEnd(@, self.b, how)]
    IN  /\ self.kind = "replay"
        /\ self.pc = "send"
        /\ IF next.raised
           THEN Becomes(t, Halt(ended, IF how = "cancelled" THEN "cancelled"
                                       ELSE "failed", self.i, 0))
           ELSE IF next.j <= Len(active)
                THEN Becomes(t, [ended EXCEPT
                                    !.j = next.j, !.ws = active[next.j],
                                    !.sends = SendStart(@, self.b,
                                                        active[next.j])])
                ELSE Becomes(t, ReplayLoop(ended, self.i + 1))

\* Bodies of POST /report-detection while a replay may be running.
ReplayReports ==
    {[person_id |-> "CRIM_002", person_name |-> "kanika", category |-> "B",
      detected |-> TRUE, camera_id |-> "cam_02"],
     [person_id |-> "POLICE_001", person_name |-> "sharma", category |-> "A",
      detected |-> TRUE, camera_id |-> "cam_01"],
     [person_id |-> NoneId, person_name |-> NoneName, category |-> "B",
      detected |-> FALSE, camera_id |-> "cam_01"]}

\* The replay with its start and stop endpoints and the subscribers.
NextReplay ==
    \/ \E data \in SimulationData(MaxReplayEvents) : LoadSimulationData(data)
    \/ \E speed \in Speeds : Len(tasks) < MaxTasks /\ StartReplay(speed)
    \/ StopReplay
    \/ \E t \in 1..Len(tasks) : TaskStarts(t)
    \/ \E t \in 1..Len(tasks) : SleepReturns(t)
    \/ \E t \in 1..Len(tasks), outcome \in Outcomes : ReplaySendReturns(t, outcome)
    \/ \E ws \in WS : Connect(ws)

\* One replay run to its end, with subscribers joining.
NextPacing ==
    \/ \E data \in SimulationData(MaxEvents) : LoadSimulationData(data)
    \/ \E speed \in Speeds : tasks = <<>> /\ StartReplay(speed)
    \/ \E t \in 1..Len(tasks) : TaskStarts(t)
    \/ \E t \in 1..Len(tasks) : SleepReturns(t)
    \/ \E t \in 1..Len(tasks), outcome \in Outcomes : ReplaySendReturns(t, outcome)
    \/ \E ws \in WS : Connect(ws)

\* Live reports with subscribers coming and going.
NextBroadcast ==
    \/ \E body \in ReplayReports : clock <= MaxStore /\ Report(body)
    \/ \E t \in 1..Len(tasks), outcome \in Outcomes : ReportSendReturns(t, outcome)
    \/ \E ws \in WS : Connect(ws)
    \/ \E ws \in WS : Disconnect(ws)

\* Live reports next to one replay run, both writing the store.
NextAlert ==
    \/ \E body \in ReplayReports : clock <= MaxAlertReports /\ Report(body)
    \/ \E t \in 1..Len(tasks), outcome \in Outcomes : ReportSendReturns(t, outcome)
    \/ \E ws \in WS : Connect(ws)
    \/ \E data \in SimulationData(MaxAlertEvents) : LoadSimulationData(data)
    \/ replay_task = NoTask /\ StartReplay(1)
    \/ \E t \in 1..Len(tasks) : TaskStarts(t)
    \/ \E t \in 1..Len(tasks) : SleepReturns(t)
    \/ \E t \in 1..Len(tasks), outcome \in Outcomes : ReplaySendReturns(t, outcome)

\* The simulation endpoints and live reports, with the simulation data loaded
\* or not.
NextEndpoints ==
    \/ \E data \in SimulationData(MaxReplayEvents) : LoadSimulationData(data)
    \/ \E speed \in EndpointSpeeds :
            Len(tasks) < MaxTasks /\ StartSimulation(speed)
    \/ StopSimulation
    \/ \E t \in 1..Len(tasks) : TaskStarts(t)
    \/ \E t \in 1..Len(tasks) : SleepReturns(t)
    \/ \E body \in ReplayReports : clock <= MaxAlertReports /\ Report(body)

(***************************************************************************)
(* The nearest-neighbour join on its own, over bounded detection files     *)
(***************************************************************************)
\* Record timestamps and event times of the join inputs: 0 .. MaxJoinTime.
MaxJoinTime == 3

\* Records in the file of cam_01.
MaxDets == 3

\* No timeline event joined yet.
NoEvent == [global_time |-> 0, camera_id |-> "none", person_id |-> NoneId]

\* The records process_video can append for camera_id.
Records(camera_id) ==
    {[person_id |-> p, category |-> CategoryOf(p), camera_id |-> camera_id,
      timestamp |-> ts] : p \in PersonIds, ts \in 0..MaxJoinTime}

\* camera_detections is appended to frame by frame: timestamps never decrease.
Chronological(dets) ==
    \A k \in 1..(Len(dets) - 1) : dets[k].timestamp <= dets[k + 1].timestamp

\* Files for the join: any chronological file of cam_01 next to a file of
\* cam_02 holding both persons at every time; no file of cam_03.
JoinData ==
    {[timeline |-> <<>>,
      detections |->
          [cam_01 |-> dets,
           cam_02 |-> [k \in 1..(MaxJoinTime + 1) |->
                          [person_id |-> IF k % 2 = 0 THEN "CRIM_001"
                                         ELSE "POLICE_001",
                           category |-> IF k % 2 = 0 THEN "B" ELSE "A",
                           camera_id |-> "cam_02", timestamp |-> k - 1]]]] :
        dets \in UNION {{d \in [1..n -> Records("cam_01")] : Chronological(d)} :
                            n \in 0..MaxDets}}

\* Timeline events handed to the join: the camera id as written by
\* preprocessing, in upper case, and of a camera without a file.
JoinEvents ==
    {[global_time |-> g, camera_id |-> c, person_id |-> p] :
        g \in 0..MaxJoinTime, c \in {"cam_01", "CAM_01", "cam_03"},
        p \in PersonIds}

InitJoin ==
    /\ detection_data = [event |-> NoEvent, result |-> NoneDetection]
    /\ output_data = [program |-> "none", loaded |-> <<>>, error |-> "none",
                      detections |-> <<>>]

\* detection_data = self.get_detection_for_timeline_event(timeline_event)
GetDetection(timeline_event) ==
    /\ data_loaded
    /\ detection_data' =
           [event |-> timeline_event,
            result |-> GetDetectionForTimelineEvent(detections_by_camera,
                                                    timeline_event)]
    /\ UNCHANGED output_data
    /\ UNCHANGED <<varsStab, varsRes, varsReg, varsDb, varsLive, db_file,
                   varsBackend, varsData, varsReplay, varsTest, varsCrop,
                   varsMain, replay_op>>

NextJoin ==
    \/ \E data \in JoinData : LoadSimulationData(data)
    \/ \E timeline_event \in JoinEvents : GetDetection(timeline_event)


(***************************************************************************)
(* Timeline merge (offline_processor/merge_results.py and the end of main  *)
(* in offline_processor/process_videos.py).                                *)
(***************************************************************************)
\* Detections in one camera's list in SpecMerge: 0 .. MaxFile.
MaxFile == 2

\* The cameras merged, in the order Python compares their ids as strings.
MergeCameras == <<"CAM_01", "CAM_02">>

\* Place of camera_id in that order.
CameraRank(camera_id) ==
    CHOOSE k \in 1..Len(MergeCameras) : MergeCameras[k] = camera_id

\* (timestamp, camera_id, frame_id) of x < the same of y, as Python compares
\* tuples.
KeyLess(x, y) ==
    \/ x.timestamp < y.timestamp
    \/ /\ x.timestamp = y.timestamp
       /\ \/ CameraRank(x.camera_id) < CameraRank(y.camera_id)
          \/ /\ x.camera_id = y.camera_id
             /\ x.frame_id < y.frame_id

\* list.sort(key=...): a stable sort, here by insertion from the left; an
\* item goes after every item whose key is not greater than its own.
RECURSIVE Insert(_, _)
Insert(sorted, x) ==
    IF sorted = <<>> THEN <<x>>
    ELSE IF KeyLess(x, sorted[Len(sorted)])
         THEN Append(Insert(SubSeq(sorted, 1, Len(sorted) - 1), x),
                     sorted[Len(sorted)])
         ELSE Append(sorted, x)

RECURSIVE SortDetections(_)
SortDetections(list) ==
    IF list = <<>> THEN <<>>
    ELSE Insert(SortDetections(SubSeq(list, 1, Len(list) - 1)), list[Len(list)])

\* all_detections after "all_detections.extend(detections)" for each loaded
\* per-camera list in turn.
RECURSIVE Extend(_)
Extend(loaded) ==
    IF loaded = <<>> THEN <<>>
    ELSE Extend(SubSeq(loaded, 1, Len(loaded) - 1)) \o loaded[Len(loaded)]

\* The per-camera "detections" lists in the order they are loaded. A list
\* holds up to MaxFile detections over two times, two frame ids and two
\* tracked persons, so that lists hold unsorted items and items of equal key.
LoadOrders ==
    LET CameraDetections(camera_id) ==
            [timestamp : {1, 2}, camera_id : {camera_id}, frame_id : {1, 2},
             person_id : {"ayush", "unknown"}]
        CameraLists(camera_id) ==
            UNION {[1..n -> CameraDetections(camera_id)] : n \in 0..MaxFile}
    IN  {<<a, b>> : a \in CameraLists("CAM_01"), b \in CameraLists("CAM_02")}
            \cup {<<b, a>> : a \in CameraLists("CAM_01"),
                             b \in CameraLists("CAM_02")}

\* main() of process_videos.py from "all_detections = []" to the sort, run
\* once on the per-camera lists.
ProcessVideosMain(loaded) ==
    /\ output_data.program = "none"
    /\ output_data' = [program |-> "process_videos", loaded |-> loaded,
                       error |-> "none",
                       detections |-> SortDetections(Extend(loaded))]
    /\ UNCHANGED detection_data
    /\ UNCHANGED <<varsStab, varsRes, varsReg, varsDb, varsLive, db_file,
                   varsBackend, varsData, varsReplay, varsTest, varsCrop,
                   varsMain, replay_op>>

\* python merge_results.py: the file does not compile ("continue" at lines 81
\* and 87 is indented deeper than the statement before it), so the
\* interpreter raises IndentationError before any statement runs and
\* detections.json is not written. Run once.
MergeResults(loaded) ==
    /\ output_data.program = "none"
    /\ output_data' = [program |-> "merge_results", loaded |-> loaded,
                       error |-> "IndentationError", detections |-> <<>>]
    /\ UNCHANGED detection_data
    /\ UNCHANGED <<varsStab, varsRes, varsReg, varsDb, varsLive, db_file,
                   varsBackend, varsData, varsReplay, varsTest, varsCrop,
                   varsMain, replay_op>>

NextMerge ==
    \/ \E loaded \in LoadOrders : ProcessVideosMain(loaded)
    \/ \E loaded \in LoadOrders : MergeResults(loaded)

(***************************************************************************)
(* Test backend (backend/test_backend.py): the detection generator and its *)
(* start and stop endpoints. It runs on one event loop, so an action is    *)
(* the code between two suspension points; no subscriber is connected, so  *)
(* mgr.broadcast does not suspend.                                         *)
(***************************************************************************)
\* Generator tasks the model lets the event loop hold, and detections one
\* generator is followed for.
MaxGenerators == 3
MaxGenerated == 2

InitTest ==
    /\ is_simulating = FALSE
    /\ generators = <<>>
    /\ delayed_start = "sleep"

\* asyncio.create_task(generate_test_detections(...)): the coroutine is
\* scheduled and runs at a later step.
CreateGenerator(list) ==
    Append(list, [pc |-> "created", detection_count |-> 0])

\* Generators inside "while is_simulating", suspended in asyncio.sleep(delay).
InLoop == {g \in 1..Len(generators) : generators[g].pc = "sleep"}

\* What the test backend leaves alone.
TestBackendOnly ==
    UNCHANGED <<varsStab, varsRes, varsReg, varsDb, varsLive, db_file,
                varsBackend, varsData, varsReplay, varsJoin, varsCrop,
                varsMain, replay_op>>

\* POST /simulation/start of the test backend.
TestStartSimulation ==
    /\ generators' = IF is_simulating
                     THEN generators
                     ELSE CreateGenerator(generators)
    /\ UNCHANGED <<is_simulating, delayed_start>>
    /\ TestBackendOnly

\* POST /simulation/stop of the test backend, and the shutdown of lifespan:
\* is_simulating = False. No task is cancelled.
TestStopSimulation ==
    /\ is_simulating' = FALSE
    /\ UNCHANGED <<generators, delayed_start>>
    /\ TestBackendOnly

\* delayed_start of lifespan after its asyncio.sleep(2).
DelayedStart ==
    /\ delayed_start = "sleep"
    /\ delayed_start' = "done"
    /\ generators' = IF is_simulating
                     THEN generators
                     ELSE CreateGenerator(generators)
    /\ UNCHANGED is_simulating
    /\ TestBackendOnly

\* The event loop runs generate_test_detections for the first time:
\* is_simulating = True, then the loop test and the first sleep.
GenerateTestDetectionsStarts(g) ==
    /\ generators[g].pc = "created"
    /\ is_simulating' = TRUE
    /\ generators' = [generators EXCEPT ![g].pc = "sleep"]
    /\ UNCHANGED delayed_start
    /\ TestBackendOnly

\* The sleep of a generator ends: "if not is_simulating: break", else one
\* detection is produced, the loop test passes and the next sleep begins.
GenerateTestDetectionsWakes(g) ==
    /\ generators[g].pc = "sleep"
    /\ generators' = IF ~is_simulating
                     THEN [generators EXCEPT ![g].pc = "done"]
                     ELSE [generators EXCEPT ![g].detection_count = @ + 1]
    /\ UNCHANGED <<is_simulating, delayed_start>>
    /\ TestBackendOnly

NextTest ==
    \/ Len(generators) < MaxGenerators /\ TestStartSimulation
    \/ TestStopSimulation
    \/ Len(generators) < MaxGenerators /\ DelayedStart
    \/ \E g \in 1..Len(generators) : GenerateTestDetectionsStarts(g)
    \/ \E g \in 1..Len(generators) :
           generators[g].detection_count < MaxGenerated
               /\ GenerateTestDetectionsWakes(g)

(***************************************************************************)
(* Person-crop path: the frame loop of offline_processor/process_videos.py *)
(* and of test.py. A track keeps one stored name; recognition is tried on  *)
(* the crop of a confirmed track while that name is the initial one.       *)
(***************************************************************************)
\* Frames of one video the loop is followed for.
MaxCropFrames == 4

\* prediction_dict = defaultdict(lambda: {"name": "unknown", ...})
InitialName == "unknown"

\* What vector_search(embedding, threshold=0.80) returns as the name: the
\* label of a gallery entry closer than the threshold, or the sentinel.
VectorSearchNames == {UnknownName, "ayush", "kanika"}

\* A test that also takes the resolver's sentinel for "not yet named".
IsUnrecognised(name) == name \in {InitialName, UnknownName}

\* if name == "unknown"
IsInitialName(name) == name = InitialName

InitCrop ==
    /\ stored_name = [t \in TrackIds |-> InitialName]
    /\ crop_log = <<>>

\* One processed frame for track t: tracker.update_tracks leaves the track in
\* state to; a track that is not confirmed is skipped; for a confirmed one
\* the stored name is read and, when it is the initial name and a face is
\* found in a non-empty crop, vector_search is called and its name stored.
\* face tells whether app.get finds a face in the crop, result is what
\* vector_search would return.
CropFrame(t, to, face, result) ==
    LET name      == stored_name[t]
        submitted == to = "confirmed" /\ IsInitialName(name) /\ face
    IN  /\ to \in UpdateTracks(tracks[t])
        /\ tracks' = [tracks EXCEPT ![t] = to]
        /\ stored_name' = IF submitted
                          THEN [stored_name EXCEPT ![t] = result]
                          ELSE stored_name
        /\ crop_log' = Append(crop_log,
               [track |-> t, state |-> to, had |-> name, face |-> face,
                submitted |-> submitted, result |-> result,
                name |-> stored_name'[t]])
        /\ UNCHANGED <<prediction_dict, hist, counted, detections>>
        /\ UNCHANGED <<varsRes, varsReg, varsDb, varsLive, db_file,
                       varsBackend, varsData, varsReplay, varsJoin, varsTest,
                       varsMain, replay_op>>

NextCrop ==
    \E t \in TrackIds, to \in TrackStates, face \in BOOLEAN,
       result \in VectorSearchNames :
        Len(crop_log) < MaxCropFrames /\ CropFrame(t, to, face, result)

(***************************************************************************)
(* Offline preprocessing as a whole: main of offline_preprocess.py, which  *)
(* runs process_video on one video after the other, then writes the        *)
(* timeline. Times are counted in a unit that divides every frame period.  *)
(***************************************************************************)
\* Videos in cctv/, and frames read from one video.
MaxVideos == 3
MaxFrames == 2

\* sorted(CAMERA_CONFIG.keys()), cut down to its first two cameras.
CameraIds == <<"cam_01", "cam_02">>

\* 1 / fps, the period of a frame, over the videos.
FramePeriods == {1, 2}

\* No process_video call is in progress.
NoVideo == [index |-> 0]

\* No stabilized prediction on a frame.
NoPrediction == "<none>"

InitMain ==
    /\ main_pc = "videos"
    /\ main_time = 0
    /\ camera_idx = 0
    /\ video = NoVideo
    /\ global_timeline = <<>>
    /\ event_video = <<>>
    /\ video_log = <<>>
    /\ detections_files = [c \in {} |-> <<>>]
    /\ timeline_file = <<>>

\* What main and process_video leave alone besides the registry.
MainOnly ==
    UNCHANGED <<varsStab, varsRes, varsDb, varsLive, db_file, varsBackend,
                varsData, varsReplay, varsJoin, varsTest, varsCrop,
                replay_op>>

\* camera_ids[camera_idx % len(camera_ids)]
AssignCamera(idx) == CameraIds[(idx % Len(CameraIds)) + 1]

\* An end time that forgets where the video started.
LastTimeFromZero(global_start_time, frame_count, period) ==
    frame_count * period

\* last_time = global_start_time + (frame_count / fps) if frame_count > 0
\*             else global_start_time
LastTime(global_start_time, frame_count, period) ==
    IF frame_count > 0
    THEN global_start_time + frame_count * period
    ELSE global_start_time

\* with open(detections_file, "w"): the file of the camera is replaced.
WriteFile(files, name, content) ==
    [c \in DOMAIN files \cup {name} |-> IF c = name THEN content ELSE files[c]]

\* One turn of "for video_path in video_files" up to the frame loop of
\* process_video: the camera is assigned and the video opened. A video that
\* cannot be opened returns global_start_time at once and writes nothing.
StartVideo(opens, period) ==
    /\ main_pc = "videos"
    /\ video = NoVideo
    /\ camera_idx' = camera_idx + 1
    /\ IF opens
       THEN /\ video' = [index |-> camera_idx + 1,
                         camera_id |-> AssignCamera(camera_idx),
                         global_start_time |-> main_time, period |-> period,
                         frame_count |-> 0, local_detections |-> <<>>]
            /\ UNCHANGED <<video_log, main_time>>
       ELSE /\ video_log' = Append(video_log,
                   [camera_id |-> AssignCamera(camera_idx), opened |-> FALSE,
                    start |-> main_time, end |-> main_time])
            /\ UNCHANGED <<video, main_time>>
    /\ UNCHANGED <<main_pc, global_timeline, event_video, detections_files,
                   timeline_file>>
    /\ UNCHANGED varsReg
    /\ MainOnly

\* One frame of the video in progress: global_time = global_start_time +
\* frame_count / fps; a stabilized prediction on it makes a detection, which
\* goes to the camera's list and to global_timeline; frame_count += 1.
ProcessFrame(prediction) ==
    LET global_time == video.global_start_time
                           + video.frame_count * video.period
    IN  /\ main_pc = "videos"
        /\ video # NoVideo
        /\ IF prediction = NoPrediction
           THEN /\ video' = [video EXCEPT !.frame_count = @ + 1]
                /\ UNCHANGED <<global_timeline, event_video>>
                /\ UNCHANGED varsReg
           ELSE /\ StabilizedDetection(prediction, video.camera_id,
                                       global_time)
                /\ video' = [video EXCEPT
                       !.frame_count = @ + 1,
                       !.local_detections = Append(@,
                           camera_detections'[Len(camera_detections')])]
                /\ global_timeline' = Append(global_timeline,
                       [global_time |-> global_time,
                        camera_id |-> video.camera_id,
                        person_id |->
                            camera_detections'[Len(camera_detections')]
                                .person_id])
                /\ event_video' = Append(event_video, video.index)
        /\ UNCHANGED <<main_pc, main_time, camera_idx, video_log,
                       detections_files, timeline_file>>
        /\ MainOnly

\* cap.read() finds no further frame: the camera's detections file is
\* written, process_video returns last_time and main keeps it as global_time.
EndVideo ==
    LET last_time == LastTime(video.global_start_time, video.frame_count,
                              video.period)
    IN  /\ main_pc = "videos"
        /\ video # NoVideo
        /\ detections_files' = WriteFile(detections_files,
                                         Upper(video.camera_id),
                                         video.local_detections)
        /\ main_time' = last_time
        /\ video_log' = Append(video_log,
               [camera_id |-> video.camera_id, opened |-> TRUE,
                start |-> video.global_start_time, end |-> last_time])
        /\ video' = NoVideo
        /\ UNCHANGED <<main_pc, camera_idx, global_timeline, event_video,
                       timeline_file>>
        /\ UNCHANGED varsReg
        /\ MainOnly

\* x comes before y in global_timeline.sort(key=lambda x: x["global_time"]).
RECURSIVE InsertByTime(_, _)
InsertByTime(sorted, x) ==
    IF sorted = <<>> THEN <<x>>
    ELSE IF x.global_time < sorted[Len(sorted)].global_time
         THEN Append(InsertByTime(SubSeq(sorted, 1, Len(sorted) - 1), x),
                     sorted[Len(sorted)])
         ELSE Append(sorted, x)

\* The stable sort of the timeline by global_time.
RECURSIVE SortTimeline(_)
SortTimeline(list) ==
    IF list = <<>> THEN <<>>
    ELSE InsertByTime(SortTimeline(SubSeq(list, 1, Len(list) - 1)),
                      list[Len(list)])

\* main after the for loop, with at least one video found: the timeline is
\* sorted and written.
SaveTimeline ==
    /\ main_pc = "videos"
    /\ video = NoVideo
    /\ camera_idx > 0
    /\ global_timeline' = SortTimeline(global_timeline)
    /\ timeline_file' = SortTimeline(global_timeline)
    /\ main_pc' = "done"
    /\ UNCHANGED <<main_time, camera_idx, video, event_video, video_log,
                   detections_files>>
    /\ UNCHANGED varsReg
    /\ MainOnly

NextMain ==
    \/ \E opens \in BOOLEAN, period \in FramePeriods :
          camera_idx < MaxVideos /\ StartVideo(opens, period)
    \/ \E prediction \in {NoPrediction, "ayush", "sharma"} :
          video # NoVideo /\ video.frame_count < MaxFrames
              /\ ProcessFrame(prediction)
    \/ EndVideo
    \/ SaveTimeline

(***************************************************************************)
(* Replay and fan-out properties                                           *)
(***************************************************************************)
\* Replay tasks that are not done.
AliveReplays ==
    {t \in 1..Len(tasks) : tasks[t].kind = "replay" /\ ~Done(tasks[t])}

\* What the backend holds besides the history of operations.
backendState ==
    <<tasks, replay_task, is_running, db_detections, origin, active,
      broadcasts, sends, pacing>>

\* C11: under every interleaving of start_replay, stop_replay and the replay
\* task's steps at most one replay task is not done, and a start_replay that
\* finds the current task not done creates no task and changes nothing of
\* the running one.
C11_StartIsExclusive ==
    /\ [](Cardinality(AliveReplays) <= 1)
    /\ [][(replay_op'.op = "start" /\ replay_op'.busy)
              => UNCHANGED backendState]_vars

\* A start_replay was issued while the replay task was suspended in a send.
C11_Witness ==
    /\ replay_op.op = "start"
    /\ replay_op.busy
    /\ tasks[replay_task].pc = "send"
    /\ Len(tasks) = 1

C13_StopHaltsEmission ==
    [][\A t \in 1..Len(tasks) :
          (tasks[t].stopped /\ tasks'[t] # tasks[t])
              => /\ db_detections' = db_detections
                 /\ broadcasts' = broadcasts]_vars

\* A replay stopped while suspended in a send has run on to the head of the
\* loop and left it with timeline events still to replay.
C13_Witness ==
    \E t \in 1..Len(tasks) :
        /\ tasks[t].stopped
        /\ tasks[t].pc = "done"
        /\ tasks[t].i <= Len(timeline)

\* C14 (as claimed): when a send of a broadcast was ended by the cancellation
\* of the replay task, no send of that broadcast to a further subscriber
\* follows it.
C14_CancelEndsBroadcast ==
    \A k \in 1..Len(sends) : \A m \in (k + 1)..Len(sends) :
        sends[k].outcome = "cancelled" => sends[m].b # sends[k].b

\* C15: before the event at position i >= 2 of the timeline a replay with a
\* positive speed s waits w with w * s = c - p (w counted in half seconds, so
\* w * s = 2 * (c - p)) when c - p is positive and does not wait when it is
\* not; no wait is negative, whatever the speed; and a task suspended in its
\* pacing sleep is sleeping the wait logged for that event.
C15_ReplayPacing ==
    /\ \A k \in 1..Len(pacing) :
          LET e == pacing[k]
              s == tasks[e.task].speed
          IN  /\ e.wait >= 0
              /\ e.event = 1 => e.wait = 0
              /\ (e.event > 1 /\ s > 0) =>
                    LET c == timeline[e.event].global_time
                        p == timeline[e.event - 1].global_time
                    IN  IF c - p > 0
                        THEN e.wait * s = 2 * (c - p)
                        ELSE e.wait = 0
    /\ \A t \in 1..Len(tasks) :
          tasks[t].pc = "sleep" =>
              /\ tasks[t].wait > 0
              /\ \E k \in 1..Len(pacing) :
                    pacing[k] = [task |-> t, event |-> tasks[t].i,
                                 wait |-> tasks[t].wait]

\* Events at times 0, 2, 5 replayed at speed 2: waits of 1.0 s and 1.5 s.
C15_Witness ==
    /\ Len(timeline) = 3
    /\ timeline[1].global_time = 0
    /\ timeline[2].global_time = 2
    /\ timeline[3].global_time = 5
    /\ Len(tasks) = 1
    /\ tasks[1].speed = 2
    /\ tasks[1].pc = "done"
    /\ pacing = <<[task |-> 1, event |-> 1, wait |-> 0],
                  [task |-> 1, event |-> 2, wait |-> 2],
                  [task |-> 1, event |-> 3, wait |-> 3]>>

\* C16 (as claimed): every detection the replay stores for a timeline event
\* carries the person_id of that event, and so does the message it
\* broadcasts for it.
C16_ReplayedPersonId ==
    /\ \A k \in 1..Len(db_detections) :
          origin[k].task # NoTask =>
              db_detections[k].person_id = timeline[origin[k].event].person_id
    /\ \A b \in 1..Len(broadcasts) :
          origin[broadcasts[b].id].task # NoTask =>
              broadcasts[b].person_id
                  = timeline[origin[broadcasts[b].id].event].person_id

\* The records of the event's camera file that carry the event's person_id.
Candidates(ev) ==
    IF Lower(ev.camera_id) \in DOMAIN detections_by_camera
    THEN {k \in 1..Len(detections_by_camera[Lower(ev.camera_id)]) :
             detections_by_camera[Lower(ev.camera_id)][k].person_id
                 = ev.person_id}
    ELSE {}

\* C17: the join returns nothing when the event's camera has no file or no
\* record of the event's person; otherwise it returns the record of that
\* camera and person whose timestamp is nearest to global_time, the earliest
\* in file order among the nearest; never a record of another person or
\* camera.
C17_NearestNeighbourJoin ==
    detection_data.event # NoEvent =>
        LET ev   == detection_data.event
            got  == detection_data.result
            dist(k) == Abs(detections_by_camera[Lower(ev.camera_id)][k].timestamp
                           - ev.global_time)
        IN  IF Candidates(ev) = {}
            THEN got = NoneDetection
            ELSE /\ got.person_id = ev.person_id
                 /\ got.camera_id = Lower(ev.camera_id)
                 /\ \E k \in Candidates(ev) :
                       /\ got = detections_by_camera[Lower(ev.camera_id)][k]
                       /\ \A m \in Candidates(ev) : dist(k) <= dist(m)
                       /\ \A m \in Candidates(ev) : m < k => dist(k) < dist(m)

\* Two records of the person at the same distance before and after the
\* event time: the earlier one in the file is returned.
C17_Witness ==
    /\ detection_data.event.global_time = 2
    /\ detection_data.event.camera_id = "CAM_01"
    /\ detection_data.result.timestamp = 1
    /\ \E k \in Candidates(detection_data.event) :
          detections_by_camera["cam_01"][k].timestamp = 3
    /\ \E k \in 1..Len(detections_by_camera["cam_01"]) :
          detections_by_camera["cam_01"][k].person_id
              # detection_data.event.person_id

\* Broadcasts made for the stored detection with id k.
BroadcastsOf(k) == {b \in 1..Len(broadcasts) : broadcasts[b].id = k}

\* C18: every live report has its detection in the store (one per report),
\* every broadcast is made for a stored detection, and a stored detection,
\* live or replayed, was broadcast (once) exactly when it is of category B
\* with detected true; a category-A detection is never broadcast.
C18_CategoryBOnlyAlerting ==
    /\ Cardinality({k \in 1..Len(origin) : origin[k].task = NoTask}) = clock - 1
    /\ \A b \in 1..Len(broadcasts) : broadcasts[b].id \in 1..Len(db_detections)
    /\ \A k \in 1..Len(db_detections) :
          /\ db_detections[k].id = k
          /\ IF db_detections[k].category = "B" /\ db_detections[k].detected
             THEN Cardinality(BroadcastsOf(k)) = 1
             ELSE BroadcastsOf(k) = {}

\* A live category-A report and a replayed category-A detection are stored
\* without a broadcast next to a replayed category-B detection that was
\* broadcast and sent to a subscriber.
C18_Witness ==
    /\ \E k \in 1..Len(db_detections) :
          origin[k].task = NoTask /\ db_detections[k].category = "A"
    /\ \E k \in 1..Len(db_detections) :
          origin[k].task # NoTask /\ db_detections[k].category = "A"
    /\ \E b \in 1..Len(broadcasts) : origin[broadcasts[b].id].task # NoTask
    /\ \E n \in 1..Len(sends) : sends[n].outcome = "ok"
    /\ Len(broadcasts) = 1

\* C19: whatever way a send of a broadcast ends, a raise included, the
\* broadcast goes on with the next item of the fan-out list when there is
\* one and returns normally when there is none: no handler ever ends with an
\* exception out of broadcast.
C19_BroadcastToleratesFailure ==
    /\ [](\A t \in 1..Len(tasks) : tasks[t].pc # "failed")
    /\ [][\A t \in 1..Len(tasks) :
            (tasks[t].pc = "send" /\ tasks'[t] # tasks[t]) =>
                IF tasks[t].j < Len(active)
                THEN /\ tasks'[t].pc = "send"
                     /\ tasks'[t].j = tasks[t].j + 1
                     /\ tasks'[t].ws = active[tasks[t].j + 1]
                     /\ sends'[Len(sends')] =
                            [b |-> tasks[t].b, ws |-> active[tasks[t].j + 1],
                             outcome |-> "pending"]
                ELSE tasks'[t].pc = "done"]_vars

\* A broadcast has returned after its send to one subscriber raised and its
\* send to the next subscriber succeeded.
C19_Witness ==
    \E n \in 1..Len(sends) : \E m \in (n + 1)..Len(sends) :
        /\ sends[n].b = sends[m].b
        /\ sends[n].outcome = "raise"
        /\ sends[m].outcome = "ok"
        /\ sends[n].ws # sends[m].ws
        /\ \E t \in 1..Len(tasks) : tasks[t].b = sends[n].b /\ tasks[t].pc = "done"

\* Broadcasts that have returned.
Returned(b) == \A n \in 1..Len(sends) : sends[n].b = b => sends[n].outcome # "pending"

\* C20 (as claimed): once a broadcast has returned, a subscriber whose send
\* failed in it is no longer in the fan-out list.
C20_FailedSubscriberRemoved ==
    \A n \in 1..Len(sends) :
        (sends[n].outcome = "raise" /\ Returned(sends[n].b)) =>
            \A k \in 1..Len(active) : active[k] # sends[n].ws

\* Sends of broadcast b that went to ws.
SendsTo(b, ws) == {n \in 1..Len(sends) : sends[n].b = b /\ sends[n].ws = ws}

\* C21 (as claimed): with subscribers connecting and disconnecting while a
\* broadcast is suspended in a send, no broadcast fails, and once a broadcast
\* has returned every subscriber that was in the fan-out list from its start
\* to its end was sent the message exactly once.
C21_ChurnSafeBroadcast ==
    /\ \A t \in 1..Len(tasks) : tasks[t].pc # "failed"
    /\ \A b \in 1..Len(stayed) :
          ~InFlight(b) =>
              \A ws \in stayed[b] : Cardinality(SendsTo(b, ws)) = 1

(***************************************************************************)
(* Track lifecycle properties                                              *)
(***************************************************************************)
\* C22 (as claimed): the track ids that have a vote buffer stored are among
\* the tracks the tracker holds; the buffer of a deleted track is gone.
C22_BufferDiesWithTrack ==
    {t \in TrackIds : prediction_dict[t] # <<>>} \subseteq LiveTracks

\* C23: a frame in which the track is returned as confirmed appends one label
\* to its observations; from the 10th observation on it emits exactly one
\* detection, labelled with the earliest mode of the buffer as it stands in
\* that frame (the stored buffer with the new label appended), and before the
\* 10th observation it emits none. A frame in which the track is not
\* confirmed emits nothing.
C23_OneDetectionPerFrame ==
    [][\A t \in TrackIds :
          /\ tracks'[t] = "confirmed" =>
                /\ Len(hist'[t]) = Len(hist[t]) + 1
                /\ IF Len(hist'[t]) >= VoteWindow
                   THEN /\ Len(detections'[t]) = Len(detections[t]) + 1
                        /\ SubSeq(detections'[t], 1, Len(detections[t]))
                               = detections[t]
                        /\ IsEarliestMode(
                               detections'[t][Len(detections'[t])],
                               Append(prediction_dict[t],
                                      hist'[t][Len(hist'[t])]))
                   ELSE detections'[t] = <<>> /\ detections[t] = <<>>
          /\ tracks'[t] # "confirmed" => detections'[t] = detections[t]]_vars

\* A confirmed track at its 11th observation has emitted two detections with
\* different labels.
C23_Witness ==
    \E t \in TrackIds :
        /\ tracks[t] = "confirmed"
        /\ Len(hist[t]) = VoteWindow + 1
        /\ Len(detections[t]) = 2
        /\ detections[t][1] # detections[t][2]

(***************************************************************************)
(* Resolver input and failure properties                                   *)
(***************************************************************************)
\* The answer ("Unknown", +infinity) for each of n faces.
UnknownResults(n) == [k \in 1..n |-> [name |-> UnknownName, sim |-> Inf]]

\* C24 (as claimed): when the embeddings handed to the resolver are None,
\* empty or not of length 512, the gallery is not queried and the resolver
\* answers ("Unknown", +infinity) for every face of the input.
C24_InvalidEmbeddingUnknown ==
    (batch.fn # "none" /\ ~ValidEmbeddings(batch.embeddings)) =>
        /\ ~batch.queried
        /\ batch.identity_results = UnknownResults(Faces(batch.embeddings))

\* C25 (as claimed): when the gallery query raises, the resolver raises
\* nothing and answers ("Unknown", +infinity) for every queried embedding, and
\* each face of the frame reaches the tracker labelled "Unknown".
C25_GalleryFailureUnknown ==
    batch.raised =>
        /\ batch.identity_results = UnknownResults(Faces(batch.embeddings))
        /\ Len(batch.identities) = Faces(batch.embeddings)
        /\ \A k \in 1..Len(batch.identities) :
              batch.identities[k].name = UnknownName

\* label is a composite "name-variant" string whose name portion is name.
IsNameOf(name, label) ==
    /\ Len(name) < Len(label)
    /\ SubSeq(label, 1, Len(name)) = name
    /\ SubSeq(label, Len(name) + 1, Len(name) + 1) = "-"
    /\ \A i \in 1..Len(name) : SubSeq(name, i, i) # "-"

\* C26 (as claimed): when the nearest gallery label is composite and the
\* distance is below the threshold, the resolved identity is the part of the
\* label before its first "-", in both resolver functions.
C26_CompositeLabelName ==
    (/\ search.fn # "none"
     /\ search.label # NoneLabel
     /\ search.sim # NoneSim
     /\ search.sim < search.threshold
     /\ \E i \in 1..Len(search.label) : SubSeq(search.label, i, i) = "-") =>
        IsNameOf(identity_result.name, search.label)

\* The same for batch_vector_search alone.
BatchCompositeLabelName ==
    search.fn = "batch_vector_search" => C26_CompositeLabelName

(***************************************************************************)
(* Merge properties                                                        *)
(***************************************************************************)
\* a and b hold the same items the same number of times.
IsPermutation(a, b) ==
    /\ Len(a) = Len(b)
    /\ \A x \in {a[k] : k \in 1..Len(a)} \cup {b[k] : k \in 1..Len(b)} :
          Cardinality({k \in 1..Len(a) : a[k] = x})
              = Cardinality({k \in 1..Len(b) : b[k] = x})

\* The list ascends by (timestamp, camera_id, frame_id).
Ascending(list) ==
    \A i \in 1..Len(list) : \A j \in (i + 1)..Len(list) :
        \/ list[i].timestamp < list[j].timestamp
        \/ /\ list[i].timestamp = list[j].timestamp
           /\ CameraRank(list[i].camera_id) < CameraRank(list[j].camera_id)
        \/ /\ list[i].timestamp = list[j].timestamp
           /\ list[i].camera_id = list[j].camera_id
           /\ list[i].frame_id <= list[j].frame_id

\* The same per-camera lists loaded in the opposite order.
Reversed(loaded) == <<loaded[2], loaded[1]>>

\* What a merge program wrote is a permutation of the concatenated lists in
\* ascending key order, and loading the lists in the other order would have
\* given the same list.
MergeOrder ==
    /\ output_data.error = "none"
    /\ IsPermutation(output_data.detections, Extend(output_data.loaded))
    /\ Ascending(output_data.detections)
    /\ output_data.detections = SortDetections(Extend(Reversed(output_data.loaded)))

\* C27 (as claimed): after a merge of per-camera lists, by either merge
\* program, the merged list is a permutation of the concatenated lists sorted
\* ascending by (timestamp, camera_id, frame_id), whatever the load order.
C27_TimelineMergeOrder ==
    output_data.program # "none" => MergeOrder

\* The same for the merge at the end of main() in process_videos.py alone.
MainMergeOrder ==
    output_data.program = "process_videos" => MergeOrder

(***************************************************************************)
(* First-seen properties                                                   *)
(***************************************************************************)
\* Index of the first detection record created for person_id.
FirstDetection(person_id) ==
    CHOOSE k \in 1..Len(camera_detections) :
        /\ camera_detections[k].person_id = person_id
        /\ \A m \in 1..(k - 1) : camera_detections[m].person_id # person_id

\* C28: for every person ID detected so far, the first-seen record holds the
\* camera and the time of the first detection of that ID and the face image
\* saved then, whatever was seen later on any camera, and every detection
\* record of that ID carries that face-image path.
C28_FirstSeenPermanent ==
    /\ DOMAIN first_seen_info
           = {camera_detections[k].person_id : k \in 1..Len(camera_detections)}
    /\ \A k \in 1..Len(camera_detections) :
          LET person_id == camera_detections[k].person_id
              first     == camera_detections[FirstDetection(person_id)]
          IN  /\ first_seen_info[person_id].camera_id = first.camera_id
              /\ first_seen_info[person_id].time = first.timestamp
              /\ first_seen_info[person_id].face_image_path
                     = "faces/" \o person_id \o "_" \o first.camera_id \o ".jpg"
              /\ camera_detections[k].face_image_path
                     = first_seen_info[person_id].face_image_path

\* A person first seen on cam_01 at time 1 was seen again on cam_02 at time 2,
\* and another person was first seen in between.
C28_Witness ==
    /\ Len(camera_detections) = 3
    /\ camera_detections[1].person_id = camera_detections[3].person_id
    /\ camera_detections[2].person_id # camera_detections[1].person_id
    /\ camera_detections[1].camera_id = "cam_01"
    /\ camera_detections[1].timestamp = 1
    /\ camera_detections[3].camera_id = "cam_02"
    /\ camera_detections[3].timestamp = 2
    /\ first_seen_info[camera_detections[1].person_id].camera_id = "cam_01"

(***************************************************************************)
(* Persistence properties                                                  *)
(***************************************************************************)
\* C29: every add_person or update_last_seen call that changes the in-memory
\* database of the instance leaves the file equal to the in-memory database
\* when it returns; a call that changes nothing leaves the file alone.
C29_DurableMirrorsMemory ==
    [][/\ database' # database => db_file' = database'
       /\ (calls' # calls /\ database' = database) => db_file' = db_file]_vars

\* The last call was an update_last_seen that moved last_seen of a person
\* whose first_seen was already set, and the file holds the new value.
C29_Witness ==
    /\ Len(calls) >= 3
    /\ calls[Len(calls)].op = "update_last_seen"
    /\ \E i \in 1..Len(database) :
          /\ database[i].person_id = calls[Len(calls)].person_id
          /\ database[i].first_seen # NoTime
          /\ database[i].first_seen # database[i].last_seen
          /\ database[i].last_seen = calls[Len(calls)].timestamp
    /\ db_file = database

(***************************************************************************)
(* Endpoint properties                                                     *)
(***************************************************************************)
\* C30: no simulation endpoint ever raises. While the simulation data is not
\* loaded (mode off, or the load failed) no replay task exists, a start or
\* stop request is answered with an error payload and changes nothing, and a
\* live report still stores its detection. A start request that finds a
\* replay running changes nothing either.
C30_StateErrorsAreNoOps ==
    /\ [](replay_op.op \notin {"start_raise", "stop_raise"})
    /\ [](~data_loaded => tasks = <<>> /\ replay_task = NoTask)
    /\ [][(~data_loaded /\ ~data_loaded') =>
             /\ replay_op'.op \in {"start_error", "stop_error", "other"}
             /\ replay_op'.op \in {"start_error", "stop_error"} =>
                   UNCHANGED <<backendState, face_db, db_file>>
             /\ last_op'.op = "report" /\ clock' = clock + 1 =>
                   /\ Len(db_detections') = Len(db_detections) + 1
                   /\ db_detections'[Len(db_detections')].id
                          = Len(db_detections) + 1]_vars
    /\ [][(replay_op'.op = "start" /\ replay_op'.busy) =>
             UNCHANGED <<backendState, face_db, db_file>>]_vars

\* With no simulation data loaded, a start request was answered with an error
\* after a live report was stored, and no task exists.
C30_Witness ==
    /\ ~data_loaded
    /\ replay_op.op = "start_error"
    /\ Len(db_detections) = 1
    /\ tasks = <<>>

(***************************************************************************)
(* Restart and running-flag properties                                     *)
(***************************************************************************)
\* C31 (as claimed): a start_replay called when the current replay task is
\* one that stop_replay was called on while it was inside its loop is not
\* rejected as already running: it creates a new replay task, which becomes
\* the current one and stands before the first event of the timeline.
C31_RestartAfterStop ==
    [][(/\ replay_op'.op = "start"
        /\ replay_task # NoTask
        /\ tasks[replay_task].stopped
        /\ tasks[replay_task].pc # "created")
           => /\ ~replay_op'.busy
              /\ Len(tasks') = Len(tasks) + 1
              /\ replay_task' = Len(tasks')
              /\ tasks'[replay_task'].pc = "created"
              /\ tasks'[replay_task'].i = 0
              /\ tasks'[replay_task'].previous_time = NonePrev]_vars

\* C32 (as claimed): whenever is_running is true the current replay task is
\* not done, and whenever the current replay task is done, however its loop
\* ended, is_running is false.
C32_RunningFlagTracksTask ==
    /\ is_running => (replay_task # NoTask /\ ~Done(tasks[replay_task]))
    /\ (replay_task # NoTask /\ Done(tasks[replay_task])) => ~is_running

(***************************************************************************)
(* Test backend properties                                                 *)
(***************************************************************************)
\* C33 (as claimed): under every interleaving of the start and stop requests
\* of the test backend with the generators' sleeps, at most one generator
\* loop is producing detections: while is_simulating is true at most one
\* generator is inside its loop.
C33_OneGeneratorLoop ==
    is_simulating => Cardinality(InLoop) <= 1

(***************************************************************************)
(* Replay order properties                                                 *)
(***************************************************************************)
\* The loop bodies replay task t has begun, in order.
PacingOf(t) == SelectSeq(pacing, LAMBDA p : p.task = t)

\* The stored detections that replay task t appended for timeline[e].
StoredFor(t, e) ==
    {k \in 1..Len(origin) : origin[k].task = t /\ origin[k].event = e}

\* The join of timeline[e] finds a record.
Joins(e) ==
    GetDetectionForTimelineEvent(detections_by_camera, timeline[e])
        # NoneDetection

\* The wait a replay at speed s makes between timeline[e - 1] and timeline[e].
PacedWait(e, s) ==
    LET w == WaitTime(timeline[e].global_time, timeline[e - 1].global_time, s)
    IN  IF w > 0 THEN w ELSE 0

\* C34: a replay task begins the loop body for timeline events 1, 2, 3, ...
\* in that order; its stored detections follow the order of their events; an
\* event the task has passed has exactly one stored detection when its join
\* finds a record and none when it does not; every broadcast is of a stored
\* detection whose event joined; and the wait before an event is measured
\* from the event before it, joined or not.
C34_ReplayEmissionOrder ==
    /\ \A t \in 1..Len(tasks) :
          /\ \A k \in 1..Len(PacingOf(t)) : PacingOf(t)[k].event = k
          /\ \A k \in 2..Len(PacingOf(t)) :
                PacingOf(t)[k].wait = PacedWait(k, tasks[t].speed)
          /\ \A e \in 1..Len(timeline) :
                /\ Cardinality(StoredFor(t, e)) <= 1
                /\ StoredFor(t, e) # {} => Joins(e)
                /\ (tasks[t].i > e /\ Joins(e)) => StoredFor(t, e) # {}
    /\ \A k \in 1..Len(origin) : \A m \in (k + 1)..Len(origin) :
          origin[k].task = origin[m].task => origin[k].event < origin[m].event
    /\ \A b \in 1..Len(broadcasts) :
          /\ broadcasts[b].id \in 1..Len(origin)
          /\ Joins(origin[broadcasts[b].id].event)
          /\ \A c \in 1..Len(broadcasts) :
                broadcasts[c].id = broadcasts[b].id => c = b

\* A replay of three events has ended; the join of the second found nothing,
\* the other two were stored in order, and the third was waited for from the
\* time of the second.
C34_Witness ==
    /\ Len(timeline) = 3
    /\ Len(tasks) = 1
    /\ tasks[1].pc = "done"
    /\ ~Joins(2)
    /\ Joins(1) /\ Joins(3)
    /\ timeline[2].global_time > timeline[1].global_time
    /\ timeline[3].global_time > timeline[2].global_time
    /\ Len(origin) = 2
    /\ origin[1].event = 1 /\ origin[2].event = 3
    /\ pacing[3].wait > 0
    /\ broadcasts # <<>>

(***************************************************************************)
(* Detection store properties                                              *)
(***************************************************************************)
\* C35: with report handlers and replay emissions appending to one store in
\* any order, the k-th stored detection has id k, so no two share an id; and
\* a step only appends to the store, leaving every earlier record where and
\* as it was, so the id a handler returns later still names the record it
\* stored.
C35_DenseDetectionIds ==
    /\ [](\A k \in 1..Len(db_detections) : db_detections[k].id = k)
    /\ [][/\ Len(db_detections') >= Len(db_detections)
           /\ SubSeq(db_detections', 1, Len(db_detections)) = db_detections
         ]_vars

\* A report was stored between two emissions of a running replay.
C35_Witness ==
    /\ Len(db_detections) = 3
    /\ origin[1].task # NoTask
    /\ origin[2].task = NoTask
    /\ origin[3].task # NoTask

(***************************************************************************)
(* Person-crop properties                                                  *)
(***************************************************************************)
\* C36: on a processed frame where the track is confirmed, recognition is run
\* exactly when the stored name is still the initial "unknown" and a face is
\* found in the crop, and its result becomes the stored name; once the
\* stored name is anything else, the resolver's no-match result included, no
\* later frame runs recognition for the track or changes its name.
C36_LazyReidentification ==
    \A k \in 1..Len(crop_log) :
        /\ crop_log[k].state = "confirmed" =>
              (crop_log[k].submitted <=>
                   (crop_log[k].had = "unknown" /\ crop_log[k].face))
        /\ crop_log[k].submitted => crop_log[k].name = crop_log[k].result
        /\ crop_log[k].name # "unknown" =>
              \A m \in (k + 1)..Len(crop_log) :
                  crop_log[m].track = crop_log[k].track =>
                      /\ ~crop_log[m].submitted
                      /\ crop_log[m].name = crop_log[k].name
                      /\ stored_name[crop_log[k].track] = crop_log[k].name

\* A confirmed track stayed "unknown" on a frame without a face, was named
\* "Unknown" by the resolver on the next, and was not submitted again on a
\* later frame where a face was found.
C36_Witness ==
    /\ Len(crop_log) = 4
    /\ \A k \in 2..4 : crop_log[k].state = "confirmed"
    /\ ~crop_log[2].face /\ crop_log[2].name = "unknown"
    /\ crop_log[3].submitted /\ crop_log[3].name = "Unknown"
    /\ crop_log[4].face /\ ~crop_log[4].submitted
    /\ stored_name[1] = "Unknown"

(***************************************************************************)
(* Category and namespace properties                                       *)
(***************************************************************************)
\* What both pipelines emitted: name, category and person ID of every
\* offline detection and of every live send_detection.
Emitted ==
    {resolved[k] : k \in 1..Len(resolved)} \cup {sent[k] : k \in 1..Len(sent)}

\* C37: every emitted detection has category B exactly when its stabilized
\* label is in the person-of-interest list and category A otherwise; its
\* person ID starts with CRIM_ when the category is B and with POLICE_ when
\* it is A; the label "Unknown" is reported as category A with a POLICE_ ID.
C37_CategoryNamespaceAgree ==
    \A e \in Emitted :
        /\ e.category = "B" <=> e.name \in Poi
        /\ e.category = "A" <=> e.name \notin Poi
        /\ e.category = "B" => StartsWith(e.person_id, "CRIM_")
        /\ e.category = "A" => StartsWith(e.person_id, "POLICE_")
        /\ e.name = "Unknown" =>
              e.category = "A" /\ StartsWith(e.person_id, "POLICE_")

\* Both pipelines have emitted "Unknown" and a person of interest, after
\* another name of each category had taken the first number.
C37_Witness ==
    /\ \E k \in 2..Len(resolved) : resolved[k].name = "Unknown"
                                      /\ resolved[k].person_id = "POLICE_002"
    /\ \E k \in 1..Len(resolved) : resolved[k].name \in Poi
    /\ \E k \in 1..Len(sent) : sent[k].name = "Unknown"
    /\ \E k \in 1..Len(sent) : sent[k].name \in Poi

(***************************************************************************)
(* Offline preprocessing properties                                        *)
(***************************************************************************)
\* The detections file of the camera of a timeline event holds a record of
\* the event's person at the event's time.
Joinable(e) ==
    /\ Upper(e.camera_id) \in DOMAIN detections_files
    /\ \E n \in 1..Len(detections_files[Upper(e.camera_id)]) :
          /\ detections_files[Upper(e.camera_id)][n].person_id = e.person_id
          /\ detections_files[Upper(e.camera_id)][n].timestamp = e.global_time

\* C38 (as claimed): when preprocessing has ended, after any number of
\* videos, every event of the written timeline has a record in the written
\* detections file of its camera with the same person_id and a timestamp
\* equal to the event's global_time.
C38_TimelineFilesJoinable ==
    main_pc = "done" =>
        \A k \in 1..Len(timeline_file) : Joinable(timeline_file[k])

\* C39: the start offset of the first video is 0 and that of every later
\* video is the end time of the video before it; timeline events are
\* appended video by video, and an event of a later video is not earlier
\* than any event of an earlier video; the timeline that is written is
\* non-decreasing in global_time and has every event appended.
C39_GlobalTimeAccumulates ==
    /\ \A v \in 1..Len(video_log) :
          video_log[v].start = IF v = 1 THEN 0 ELSE video_log[v - 1].end
    /\ video # NoVideo =>
          video.global_start_time =
              IF video_log = <<>> THEN 0 ELSE video_log[Len(video_log)].end
    /\ \A j \in 1..Len(event_video) : \A k \in (j + 1)..Len(event_video) :
          event_video[j] <= event_video[k]
    /\ main_pc = "videos" =>
          \A j \in 1..Len(event_video) : \A k \in 1..Len(event_video) :
              event_video[j] < event_video[k] =>
                  global_timeline[j].global_time
                      <= global_timeline[k].global_time
    /\ main_pc = "done" =>
          /\ Sorted(timeline_file)
          /\ Len(timeline_file) = Len(event_video)

\* Three videos were processed and the timeline written; the first and the
\* third made events, and the third started later than the second.
C39_Witness ==
    /\ main_pc = "done"
    /\ Len(video_log) = 3
    /\ \A v \in 1..3 : video_log[v].opened
    /\ video_log[2].start > 0
    /\ video_log[3].start > video_log[2].start
    /\ \E j \in 1..Len(event_video) : event_video[j] = 1
    /\ \E j \in 1..Len(event_video) : event_video[j] = 3
    /\ Len(timeline_file) >= 3

Init ==
    /\ InitStab /\ InitRes /\ InitReg /\ InitDb /\ InitFile /\ InitLive
    /\ InitBackend /\ InitData /\ InitReplay /\ InitJoin /\ InitTest
    /\ InitCrop /\ InitMain

SpecStab == Init /\ [][NextStab]_vars

SpecTracks == Init /\ [][NextTracks]_vars

SpecRes == Init /\ [][NextRes]_vars

SpecBatch == Init /\ [][NextBatch]_vars

SpecAlloc == Init /\ [][NextAlloc]_vars

SpecOffline == Init /\ [][NextOffline]_vars

SpecFaceDb == Init /\ [][NextFaceDb]_vars

SpecLive == Init /\ [][NextLive]_vars

SpecReplay == Init /\ [][NextReplay]_vars

SpecPacing == Init /\ [][NextPacing]_vars

SpecBroadcast == Init /\ [][NextBroadcast]_vars

SpecAlert == Init /\ [][NextAlert]_vars

SpecEndpoints == Init /\ [][NextEndpoints]_vars

SpecJoin == Init /\ [][NextJoin]_vars

SpecMerge == Init /\ [][NextMerge]_vars

SpecTest == Init /\ [][NextTest]_vars

SpecCrop == Init /\ [][NextCrop]_vars

SpecMain == Init /\ [][NextMain]_vars

====
